---- MODULE Spec2Model ----
(***************************************************************************)
(* Video-to-audio converter with optional transcript generation.           *)
(*                                                                         *)
(* VideoConverter (src/src/types.ts:150-294) sequences                     *)
(*   AudioExtractor.getVideoMetadata -> AudioExtractor.extractAudio ->     *)
(*   TranscriptGenerator.generateTranscript                                *)
(* (src/unnamed/part_001 = AudioExtractor.ts, src/src/types.ts:302-452 =   *)
(* TranscriptGenerator.ts).                                                *)
(*                                                                         *)
(* Execution model: JavaScript's single thread.  A host event (media       *)
(* element event, recorder event, recognition event, timer) or a client    *)
(* call (dispose) is a task; it runs its handler to completion.  The       *)
(* continuation of an `await` whose promise has settled is a microtask: it *)
(* runs before the next task.  The model has one action per handler and    *)
(* one per straight-line segment of an async function; tasks are guarded   *)
(* by Quiescent (no continuation is runnable), which gives microtasks      *)
(* their priority.                                                         *)
(*                                                                         *)
(* The client either calls convert on files[1] (api = "convert") or        *)
(* convertMultiple on files (api = "convertMultiple").  Call k of convert  *)
(* works on files[k]; host objects created by call k are numbered k.       *)
(***************************************************************************)
EXTENDS Integers, Sequences, FiniteSets, TLC

\* ---------------------------------------------------------------- bounds
MaxFiles == 2        \* files handed to the converter
MaxDispose == 1      \* client calls of dispose during a run
MaxResults == 2      \* recognition results the host delivers during a run
MaxFaults == 1       \* host faults (media errors, thrown exceptions, recognition errors) during a run
MaxStops == 2        \* client calls of TranscriptGenerator.stop / dispose during a run

Calls == 1..MaxFiles

\* ------------------------------------------------------- input alphabets
\* Declared MIME types, as character sequences.
VideoMp4  == <<"v","i","d","e","o","/","m","p","4">>
AudioMpeg == <<"a","u","d","i","o","/","m","p","3">>
VideoBare == <<"v","i","d","e","o">>
FileTypes == {VideoMp4, AudioMpeg, VideoBare}

\* config.transcriptLanguage: "" stands for an absent (falsy) tag.
Languages == {"", "ar-SA"}

\* config.outputFormat (AudioFormat), as character sequences.
Webm == <<"w","e","b","m">>
Mp3  == <<"m","p","3">>
AudioFormats == {Webm, Mp3}

\* File.name of the k-th file handed to the converter.
FileName(k) ==
  IF k % 2 = 1 THEN <<"c",".","m","p","4">>
  ELSE <<"m","y",".","t",".","m","o","v">>

\* Messages of the exceptions the host can throw while the graph is built.
ContextCause == "AudioContext limit reached"
GraphCause   == "NotSupportedError"
\* recognition.start() failure message.
StartCause   == "InvalidStateError"
\* SpeechRecognitionErrorEvent.error codes.
RecognitionErrors == {"network"}
\* The first alternative of a recognition result: its text (a character
\* sequence) and its confidence (in tenths).
Alternatives == {[transcript |-> <<>>, confidence |-> 5],
                 [transcript |-> <<"h","i">>, confidence |-> 9]}

\* ----------------------------------------------------------------- state
VARIABLES
  files,          \* the File objects of the run (declared MIME type)
  config,         \* ConversionConfig
  api,            \* which entry point the client uses
  listeners,      \* VideoConverter.listeners: which callbacks are set
  mpc,            \* position of the client / convertMultiple
  i,              \* index of the current file (convertMultiple's i, 1-based)
  results,        \* convertMultiple's results array (call indices)
  batch,          \* the promise returned by convertMultiple
  pc,             \* position of the current convert call
  thrown,         \* the error travelling to convert's catch block
  log,            \* listener invocations, in order: progress events, then
                  \* the onComplete or onError that ends a call
  completeCalls,  \* per call: results passed to onComplete
  errorCalls,     \* per call: errors passed to onError
  outcome,        \* per call: the promise returned by convert
  audioContext,   \* AudioExtractor.audioContext (0 = null)
  graph,          \* per call: the AudioContext that call created
  metaVideo,      \* per call: getVideoMetadata's video element
  metaPromise,    \* per call: getVideoMetadata's promise
  video,          \* per call: extractAudio's video element
  recorder,       \* per call: extractAudio's MediaRecorder
  extractPromise, \* per call: extractAudio's promise
  urls,           \* object URLs created for the source file
  window,         \* speech-recognition constructors the host defines
  isRecognitionAvailable, \* TranscriptGenerator.isRecognitionAvailable
  recognition,    \* TranscriptGenerator.recognition (0 = null)
  session,        \* per call: the SpeechRecognition object that call created
  stopCalls,      \* per call: stop() calls received by that session
  audio,          \* per call: generateTranscript's audio element
  timer,          \* per call: the grace timer armed by audio.onended
  transcript,     \* per call: the closure variable `transcript`
  confidenceSum,  \* per call: the closure variable `confidenceSum`
  confidenceCount,\* per call: the closure variable `confidenceCount`
  delivered,      \* recognition results the host has delivered so far
  transcriptPromise, \* per call: generateTranscript's promise
  finalized,      \* history, per call: the texts of the results delivered as final
  finalConfidence, \* history, per call: the confidences of those results
  settledBy,      \* history, per call: the event that settled generateTranscript
  faults,         \* host faults so far
  disposeCount,   \* number of client dispose calls so far
  disposedAt,     \* per call: phase of extractAudio at a client dispose
  downloads,      \* files the documented onComplete listener has downloaded
  stopReturn,     \* how the last TranscriptGenerator.stop call ended
  stopCount,      \* client calls of TranscriptGenerator.stop / dispose so far
  utilCall,       \* the FileHandler utility call being made
  utilRet         \* what that call returned

orchVars == <<files, config, api, listeners, mpc, i, results, batch, pc,
              thrown, log, completeCalls, errorCalls, outcome>>
extVars  == <<audioContext, graph, metaVideo, metaPromise, video, recorder,
              extractPromise, urls>>
genVars  == <<window, isRecognitionAvailable, recognition, session, stopCalls, audio,
              timer, transcript, confidenceSum, confidenceCount, delivered,
              transcriptPromise, finalized, finalConfidence, settledBy>>
cliVars  == <<faults, disposeCount, disposedAt>>
dlVars   == <<downloads>>
stopVars == <<stopReturn, stopCount>>
utilVars == <<utilCall, utilRet>>
vars == <<orchVars, extVars, genVars, cliVars, dlVars, stopVars, utilVars>>

\* --------------------------------------------------------------- helpers
Pending   == [state |-> "pending"]
Unsettled(p) == p.state \in {"none", "pending"}
Resolve(p, v) == IF p.state = "pending" THEN [state |-> "resolved", value |-> v] ELSE p
Reject(p, e)  == IF p.state = "pending" THEN [state |-> "rejected", error |-> e] ELSE p

StartsWith(s, prefix) ==
  /\ Len(s) >= Len(prefix)
  /\ SubSeq(s, 1, Len(prefix)) = prefix

\* Variant of isVideoFile: the prefix test omits the slash.
isVideoFileNoSlash(file) == StartsWith(file.type, <<"v","i","d","e","o">>)

\* FileHandler.isVideoFile
isVideoFile(file) == StartsWith(file.type, <<"v","i","d","e","o","/">>)

\* VideoConverter.emitProgress, as the log after the call
emitProgress(l, by, k, status, percentage) ==
  IF listeners.onProgress
  THEN Append(l, [by |-> by, call |-> k, status |-> status, percentage |-> percentage])
  ELSE l

\* An invocation of listeners.onComplete or listeners.onError by convert, as
\* the log after the call
invoke(l, listener, k) ==
  Append(l, [by |-> "listener", call |-> k, status |-> listener, percentage |-> 0])

\* URL.createObjectURL / URL.revokeObjectURL on the URL of (call, operation)
createObjectURL(u, k, op) == [u EXCEPT ![<<k, op>>] = "live"]
revokeObjectURL(u, k, op) == [u EXCEPT ![<<k, op>>] = "revoked"]

\* `if (this.audioContext) { this.audioContext.close(); this.audioContext = null }`
closeHeld(g, held) == IF held # 0 THEN [g EXCEPT ![held] = "closed"] ELSE g

N == Len(files)

\* The host may still inject a fault / one more fault has been injected.
MayFault == faults < MaxFaults

\* Hosts: the set of speech-recognition constructors present in `window`.
Hosts == {{}, {"webkitSpeechRecognition"}}

\* TranscriptGenerator constructor:
\* 'webkitSpeechRecognition' in window || 'SpeechRecognition' in window
recognitionInWindow(w) == "webkitSpeechRecognition" \in w \/ "SpeechRecognition" \in w

\* An await of the current convert call whose promise has settled.
AwaitReady ==
  \/ pc = "awaitMetadata" /\ ~Unsettled(metaPromise[i])
  \/ pc = "awaitAudio" /\ ~Unsettled(extractPromise[i])
  \/ pc = "awaitTranscript" /\ ~Unsettled(transcriptPromise[i])

\* No microtask is runnable: the next step is a host event or a client call.
Quiescent ==
  /\ mpc \notin {"loop", "calling"}
  /\ pc \notin {"catch", "assemble", "settled"}
  /\ ~AwaitReady

\* ------------------------------------------------------------------ Init
\* The state right after `new VideoConverter()` / `new TranscriptGenerator()` on
\* the host `window`, before any call.
Constructed ==
  \* setListeners has been called with the three callbacks of the documented usage
  /\ listeners = [onProgress |-> TRUE, onComplete |-> TRUE, onError |-> TRUE]
  /\ mpc = "idle"
  /\ i = 0
  /\ results = <<>>
  /\ batch = [state |-> "none"]
  /\ pc = "idle"
  /\ thrown = "none"
  /\ log = <<>>
  /\ completeCalls = [k \in Calls |-> <<>>]
  /\ errorCalls = [k \in Calls |-> <<>>]
  /\ outcome = [k \in Calls |-> [state |-> "none"]]
  /\ audioContext = 0
  /\ graph = [k \in Calls |-> "none"]
  /\ metaVideo = [k \in Calls |-> "none"]
  /\ metaPromise = [k \in Calls |-> [state |-> "none"]]
  /\ video = [k \in Calls |-> "none"]
  /\ recorder = [k \in Calls |-> "none"]
  /\ extractPromise = [k \in Calls |-> [state |-> "none"]]
  /\ urls = [u \in Calls \X {"meta", "extract", "transcript"} |-> "none"]
  /\ isRecognitionAvailable = recognitionInWindow(window)
  /\ recognition = 0
  /\ session = [k \in Calls |-> "none"]
  /\ stopCalls = [k \in Calls |-> 0]
  /\ audio = [k \in Calls |-> "none"]
  /\ timer = [k \in Calls |-> "none"]
  /\ transcript = [k \in Calls |-> <<>>]
  /\ confidenceSum = [k \in Calls |-> 0]
  /\ confidenceCount = [k \in Calls |-> 0]
  /\ delivered = 0
  /\ transcriptPromise = [k \in Calls |-> [state |-> "none"]]
  /\ finalized = [k \in Calls |-> <<>>]
  /\ finalConfidence = [k \in Calls |-> <<>>]
  /\ settledBy = [k \in Calls |-> [event |-> "none"]]
  /\ faults = 0
  /\ disposeCount = 0
  /\ disposedAt = [k \in Calls |-> "none"]
  /\ downloads = <<>>
  /\ stopReturn = [outcome |-> "none", held |-> 0]
  /\ stopCount = 0
  /\ utilRet = [state |-> "none"]

Init ==
  /\ files \in UNION {{[k \in 1..n |-> [type |-> t[k], name |-> FileName(k)]] :
                          t \in [1..n -> FileTypes]} : n \in 1..MaxFiles}
  /\ config \in [outputFormat : AudioFormats, enableTranscript : BOOLEAN,
                 transcriptLanguage : Languages]
  /\ api \in {"convert", "convertMultiple"}
  /\ api = "convert" => Len(files) = 1
  /\ window \in Hosts
  /\ utilCall = [fn |-> "none", arg |-> 0]
  /\ Constructed

\* ========================================================= VideoConverter
\* The client calls converter.convert(files[1], config).
ClientConvert ==
  /\ api = "convert"
  /\ mpc = "idle"
  /\ pc = "idle"
  /\ i = 0
  /\ i' = i + 1
  /\ mpc' = "calling"
  /\ UNCHANGED <<files, config, api, listeners, results, batch, pc, thrown,
                 log, completeCalls, errorCalls, outcome>>
  /\ UNCHANGED <<extVars, genVars, cliVars>>
  /\ UNCHANGED <<dlVars, stopVars, utilVars>>

\* The client reads the settled promise of its convert call.
ClientAfterConvert ==
  /\ api = "convert"
  /\ mpc = "awaitConvert"
  /\ pc = "settled"
  /\ mpc' = "idle"
  /\ pc' = "idle"
  /\ UNCHANGED <<files, config, api, listeners, i, results, batch, thrown,
                 log, completeCalls, errorCalls, outcome>>
  /\ UNCHANGED <<extVars, genVars, cliVars>>
  /\ UNCHANGED <<dlVars, stopVars, utilVars>>

\* convertMultiple, entry: `const results = []`, `let i = 0`
ConvertMultiple ==
  /\ api = "convertMultiple"
  /\ mpc = "idle"
  /\ batch.state = "none"
  /\ results' = <<>>
  /\ i' = 1
  /\ batch' = Pending
  /\ mpc' = "loop"
  /\ UNCHANGED <<files, config, api, listeners, pc, thrown, log,
                 completeCalls, errorCalls, outcome>>
  /\ UNCHANGED <<extVars, genVars, cliVars>>
  /\ UNCHANGED <<dlVars, stopVars, utilVars>>

\* convertMultiple, loop head: test `i < videoFiles.length`, emit the file's
\* progress event and call convert, or return the results.
LoopHead ==
  /\ mpc = "loop"
  /\ IF i <= N
     THEN /\ log' = emitProgress(log, "convertMultiple", i, "processing", 0)
          /\ mpc' = "calling"
          /\ batch' = batch
     ELSE /\ batch' = Resolve(batch, results)
          /\ mpc' = "done"
          /\ log' = log
  /\ UNCHANGED <<files, config, api, listeners, i, results, pc, thrown,
                 completeCalls, errorCalls, outcome>>
  /\ UNCHANGED <<extVars, genVars, cliVars>>
  /\ UNCHANGED <<dlVars, stopVars, utilVars>>

\* Variant of LoopAfterConvert: a failed file ends the loop.
LoopAfterConvertAbort ==
  /\ api = "convertMultiple"
  /\ mpc = "awaitConvert"
  /\ pc = "settled"
  /\ results' = IF outcome[i].state = "resolved" THEN Append(results, i) ELSE results
  /\ i' = IF outcome[i].state = "resolved" THEN i + 1 ELSE N + 1
  /\ mpc' = "loop"
  /\ pc' = "idle"
  /\ UNCHANGED <<files, config, api, listeners, batch, thrown, log,
                 completeCalls, errorCalls, outcome>>
  /\ UNCHANGED <<extVars, genVars, cliVars>>
  /\ UNCHANGED <<dlVars, stopVars, utilVars>>

\* convertMultiple, after `await this.convert(file, config)`: push the result
\* or swallow the error, then `i++`.
LoopAfterConvert ==
  /\ api = "convertMultiple"
  /\ mpc = "awaitConvert"
  /\ pc = "settled"
  /\ results' = IF outcome[i].state = "resolved" THEN Append(results, i) ELSE results
  /\ i' = i + 1
  /\ mpc' = "loop"
  /\ pc' = "idle"
  /\ UNCHANGED <<files, config, api, listeners, batch, thrown, log,
                 completeCalls, errorCalls, outcome>>
  /\ UNCHANGED <<extVars, genVars, cliVars>>
  /\ UNCHANGED <<dlVars, stopVars, utilVars>>

\* convert, up to `await getVideoMetadata`: validation, the first two progress
\* events, and getVideoMetadata's synchronous part (element and object URL).
Convert ==
  /\ mpc = "calling"
  /\ pc = "idle"
  /\ mpc' = "awaitConvert"
  /\ outcome' = [outcome EXCEPT ![i] = Pending]
  /\ IF ~isVideoFile(files[i])
     THEN /\ thrown' = "File is not a video file"
          /\ pc' = "catch"
          /\ UNCHANGED <<log, metaVideo, metaPromise, urls>>
     ELSE /\ log' = emitProgress(emitProgress(log, "convert", i, "processing", 0),
                                 "convert", i, "processing", 10)
          /\ metaVideo' = [metaVideo EXCEPT ![i] = "loading"]
          /\ urls' = createObjectURL(urls, i, "meta")
          /\ metaPromise' = [metaPromise EXCEPT ![i] = Pending]
          /\ pc' = "awaitMetadata"
          /\ thrown' = thrown
  /\ UNCHANGED <<files, config, api, listeners, i, results, batch,
                 completeCalls, errorCalls>>
  /\ UNCHANGED <<audioContext, graph, video, recorder, extractPromise>>
  /\ UNCHANGED <<genVars, cliVars>>
  /\ UNCHANGED <<dlVars, stopVars, utilVars>>

\* convert, after metadata: progress 30 and extractAudio's synchronous part.
ConvertAfterMetadata ==
  /\ pc = "awaitMetadata"
  /\ metaPromise[i].state = "resolved"
  /\ log' = emitProgress(log, "convert", i, "extracting-audio", 30)
  /\ video' = [video EXCEPT ![i] = "loading"]
  /\ urls' = createObjectURL(urls, i, "extract")
  /\ extractPromise' = [extractPromise EXCEPT ![i] = Pending]
  /\ pc' = "awaitAudio"
  /\ UNCHANGED <<files, config, api, listeners, mpc, i, results, batch, thrown,
                 completeCalls, errorCalls, outcome>>
  /\ UNCHANGED <<audioContext, graph, metaVideo, metaPromise, recorder>>
  /\ UNCHANGED <<genVars, cliVars>>
  /\ UNCHANGED <<dlVars, stopVars, utilVars>>

\* `config.transcriptLanguage || 'en-US'`
languageOf(cfg) == IF cfg.transcriptLanguage = "" THEN "en-US" ELSE cfg.transcriptLanguage

UnsupportedText == <<"Speech recognition is not supported in this browser. To generate transcripts, please use Google Chrome">>

\* Variant of unsupportedResult: the default tag instead of the requested one.
unsupportedResultDefaultTag(language) ==
  [text |-> UnsupportedText, success |-> FALSE, language |-> "en-US",
   confidence |-> "undefined", error |-> "Speech recognition not available"]

\* The TranscriptResult returned on a host without speech recognition.
unsupportedResult(language) ==
  [text |-> UnsupportedText, success |-> FALSE, language |-> language,
   confidence |-> "undefined", error |-> "Speech recognition not available"]

\* Variant of transcriptProgress: the event is emitted whatever the config says.
transcriptProgressAlways(l, k) ==
  emitProgress(l, "convert", k, "generating-transcript", 60)

\* convert: `if (config.enableTranscript) emitProgress('generating-transcript', 60)`
transcriptProgress(l, k) ==
  IF config.enableTranscript
  THEN emitProgress(l, "convert", k, "generating-transcript", 60)
  ELSE l

\* convert, after extraction: either skip transcription, or progress 60 and
\* generateTranscript's synchronous part (immediate result on an unsupported
\* host; otherwise session, audio element and object URL).
ConvertAfterAudio ==
  /\ pc = "awaitAudio"
  /\ extractPromise[i].state = "resolved"
  /\ log' = transcriptProgress(log, i)
  /\ IF ~config.enableTranscript
     THEN /\ pc' = "assemble"
          /\ UNCHANGED <<urls, recognition, session, audio, transcriptPromise>>
     ELSE /\ pc' = "awaitTranscript"
          /\ IF ~isRecognitionAvailable
             THEN /\ transcriptPromise' = [transcriptPromise EXCEPT ![i] =
                        Resolve(Pending, unsupportedResult(languageOf(config)))]
                  /\ UNCHANGED <<urls, recognition, session, audio>>
             ELSE /\ session' = [session EXCEPT ![i] = "created"]
                  /\ recognition' = i
                  /\ audio' = [audio EXCEPT ![i] = "loading"]
                  /\ urls' = createObjectURL(urls, i, "transcript")
                  /\ transcriptPromise' = [transcriptPromise EXCEPT ![i] = Pending]
  /\ UNCHANGED <<files, config, api, listeners, mpc, i, results, batch, thrown,
                 completeCalls, errorCalls, outcome>>
  /\ UNCHANGED <<audioContext, graph, metaVideo, metaPromise, video, recorder,
                 extractPromise>>
  /\ UNCHANGED <<window, isRecognitionAvailable, stopCalls, timer, transcript,
                 confidenceSum, confidenceCount, delivered>>
  /\ UNCHANGED cliVars
  /\ UNCHANGED <<finalized, finalConfidence, settledBy>>
  /\ UNCHANGED <<dlVars, stopVars, utilVars>>

\* convert, an awaited step rejected: control passes to the catch block.
ConvertAwaitRejected ==
  /\ \/ pc = "awaitMetadata" /\ metaPromise[i].state = "rejected"
        /\ thrown' = metaPromise[i].error
     \/ pc = "awaitAudio" /\ extractPromise[i].state = "rejected"
        /\ thrown' = extractPromise[i].error
     \/ pc = "awaitTranscript" /\ transcriptPromise[i].state = "rejected"
        /\ thrown' = transcriptPromise[i].error
  /\ pc' = "catch"
  /\ UNCHANGED <<files, config, api, listeners, mpc, i, results, batch, log,
                 completeCalls, errorCalls, outcome>>
  /\ UNCHANGED <<extVars, genVars, cliVars>>
  /\ UNCHANGED <<dlVars, stopVars, utilVars>>

\* `let transcript = undefined`
NoTranscript == [undefined |-> TRUE]

\* The ConversionResult assembled by convert.
conversionResult(k, transcriptResult) ==
  [file |-> k, metadata |-> metaPromise[k].value, audio |-> extractPromise[k].value,
   status |-> "completed", transcript |-> transcriptResult]

\* --------------------------------------------------------- FileHandler
\* The index of the dot at which /\.[^/.]+$/ matches, or 0: the dot is followed,
\* up to the end of the name, by one or more characters other than '/' and '.'.
extensionDot(fileName) ==
  LET dots == {p \in 1..Len(fileName) :
                 /\ fileName[p] = "."
                 /\ p < Len(fileName)
                 /\ \A q \in (p + 1)..Len(fileName) : fileName[q] \notin {"/", "."}}
  IN IF dots = {} THEN 0 ELSE CHOOSE p \in dots : \A q \in dots : p <= q

\* Variant of getBaseName: the name is cut at its first dot.
getBaseNameFirstDot(fileName) ==
  LET dots == {p \in 1..Len(fileName) : fileName[p] = "."}
  IN IF dots = {} THEN fileName
     ELSE SubSeq(fileName, 1, (CHOOSE p \in dots : \A q \in dots : p <= q) - 1)

\* FileHandler.getBaseName: fileName.replace(/\.[^/.]+$/, '')
getBaseName(fileName) ==
  IF extensionDot(fileName) = 0 THEN fileName
  ELSE SubSeq(fileName, 1, extensionDot(fileName) - 1)

\* String.prototype.toLowerCase on one character
toLowerCase(c) == IF c = "B" THEN "b" ELSE c

\* FileHandler.getFileExtension: the part after the last dot, in lower case;
\* '' when the name has no dot.
getFileExtension(fileName) ==
  LET dots == {p \in 1..Len(fileName) : fileName[p] = "."}
  IN IF dots = {} THEN <<>>
     ELSE LET last == CHOOSE p \in dots : \A q \in dots : q <= p
          IN [n \in 1..(Len(fileName) - last) |-> toLowerCase(fileName[last + n])]

\* A byte count is held as n * 1024^e with n < 1024^2, so that counts above
\* 2^31 stay within 32-bit integers.  For these counts the quotient
\* Math.log(bytes) / Math.log(1024) of IEEE doubles has the same floor as the
\* exact logarithm.
floorLog1024(n) == IF n < 1024 THEN 0 ELSE 1

\* Math.pow(1024, q) for q <= 2
pow1024(q) == IF q = 0 THEN 1 ELSE IF q = 1 THEN 1024 ELSE 1048576

\* `sizes[i]` of ['Bytes', 'KB', 'MB', 'GB', 'TB']; an index past the end reads
\* undefined, which the string concatenation prints as 'undefined'.
sizes(idx) ==
  CASE idx = 0 -> "Bytes" [] idx = 1 -> "KB" [] idx = 2 -> "MB" [] idx = 3 -> "GB"
    [] idx = 4 -> "TB" [] OTHER -> "undefined"

\* parseFloat(x.toFixed(2)) printed by string concatenation, x given in
\* hundredths: trailing zeros of the fraction are not printed.
hundredthsToString(h) ==
  LET whole == h \div 100
      frac == h % 100
  IN IF frac = 0 THEN ToString(whole)
     ELSE IF frac % 10 = 0 THEN ToString(whole) \o "." \o ToString(frac \div 10)
     ELSE IF frac < 10 THEN ToString(whole) \o ".0" \o ToString(frac)
     ELSE ToString(whole) \o "." \o ToString(frac)

\* FileHandler.formatFileSize on the count b.n * 1024^b.e; toFixed(2) rounds
\* the quotient to the nearest hundredth, a tie upwards.
formatFileSize(b) ==
  IF b.n = 0 THEN "0 Bytes"
  ELSE LET idx == floorLog1024(b.n) + b.e
           k == pow1024(floorLog1024(b.n))
           hundredths == (2 * 100 * b.n + k) \div (2 * k)
       IN hundredthsToString(hundredths) \o " " \o sizes(idx)

\* Variant of padStart2: no padding.
padStart2None(str) == str

\* `.toString().padStart(2, '0')`
padStart2(str) == IF Len(str) < 2 THEN "0" \o str ELSE str

\* FileHandler.formatDuration
formatDuration(seconds) ==
  LET hours == seconds \div 3600
      minutes == (seconds % 3600) \div 60
      secs == seconds % 60
  IN IF hours > 0
     THEN ToString(hours) \o ":" \o padStart2(ToString(minutes)) \o ":" \o padStart2(ToString(secs))
     ELSE ToString(minutes) \o ":" \o padStart2(ToString(secs))

\* FileHandler.downloadBlob / downloadUrl: the anchor click saves the blob
\* under options.fileName; the saved file has the blob's own type.
downloadBlob(d, k, blob, options) ==
  Append(d, [call |-> k, fileName |-> options.fileName, mimeType |-> blob.type,
             content |-> blob.content])

\* FileHandler.downloadText, with the default mimeType 'text/plain'
downloadText(d, k, text, fileName) ==
  downloadBlob(d, k, [type |-> <<"t","e","x","t","/","p","l","a","i","n">>, content |-> text],
               [fileName |-> fileName, mimeType |-> <<"t","e","x","t","/","p","l","a","i","n">>])

\* FileHandler.downloadAudio
downloadAudio(d, k, audioBlob, baseName, format) ==
  downloadBlob(d, k, [type |-> audioBlob.type, content |-> "audio"],
               [fileName |-> baseName \o <<".">> \o format,
                mimeType |-> <<"a","u","d","i","o","/">> \o format])

\* FileHandler.downloadTranscript
downloadTranscript(d, k, text, baseName) ==
  downloadText(d, k, text,
               baseName \o <<"_","t","r","a","n","s","c","r","i","p","t",".","t","x","t">>)

\* `result.transcript && result.transcript.success`
transcriptSucceeded(result) ==
  IF "success" \in DOMAIN result.transcript THEN result.transcript.success ELSE FALSE

\* Variant of onComplete: the transcript is downloaded whenever one exists.
onCompleteAnyTranscript(d, result) ==
  LET base == getBaseName(result.metadata.fileName)
      d1 == downloadAudio(d, result.file, result.audio.audioBlob, base, result.audio.format)
  IN IF "success" \in DOMAIN result.transcript
     THEN downloadTranscript(d1, result.file, result.transcript.text, base)
     ELSE d1

\* The documented onComplete listener (main.ts example usage, README basic
\* example), as the downloads after the call.
onComplete(d, result) ==
  LET base == getBaseName(result.metadata.fileName)
      d1 == downloadAudio(d, result.file, result.audio.audioBlob, base, result.audio.format)
  IN IF transcriptSucceeded(result)
     THEN downloadTranscript(d1, result.file, result.transcript.text, base)
     ELSE d1

\* Variant of ConvertComplete: the result is returned without calling onComplete.
ConvertCompleteSilent ==
  /\ \/ pc = "assemble"
     \/ pc = "awaitTranscript" /\ transcriptPromise[i].state = "resolved"
  /\ LET result == conversionResult(i,
                     IF pc = "assemble" THEN NoTranscript
                     ELSE transcriptPromise[i].value)
     IN /\ log' = emitProgress(log, "convert", i, "completed", 100)
        /\ completeCalls' = completeCalls
        /\ downloads' = downloads
        /\ outcome' = [outcome EXCEPT ![i] = Resolve(@, result)]
  /\ pc' = "settled"
  /\ UNCHANGED <<files, config, api, listeners, mpc, i, results, batch, thrown,
                 errorCalls>>
  /\ UNCHANGED <<extVars, genVars, cliVars>>
  /\ UNCHANGED <<stopVars, utilVars>>

\* Variant of ConvertComplete: onComplete is called before the last progress event.
ConvertCompleteCallbackFirst ==
  /\ \/ pc = "assemble"
     \/ pc = "awaitTranscript" /\ transcriptPromise[i].state = "resolved"
  /\ LET result == conversionResult(i,
                     IF pc = "assemble" THEN NoTranscript
                     ELSE transcriptPromise[i].value)
     IN /\ log' = IF listeners.onComplete
                  THEN emitProgress(invoke(log, "onComplete", i),
                                    "convert", i, "completed", 100)
                  ELSE emitProgress(log, "convert", i, "completed", 100)
        /\ completeCalls' = IF listeners.onComplete
                            THEN [completeCalls EXCEPT ![i] = Append(@, result)]
                            ELSE completeCalls
        /\ downloads' = IF listeners.onComplete
                        THEN onComplete(downloads, result)
                        ELSE downloads
        /\ outcome' = [outcome EXCEPT ![i] = Resolve(@, result)]
  /\ pc' = "settled"
  /\ UNCHANGED <<files, config, api, listeners, mpc, i, results, batch, thrown,
                 errorCalls>>
  /\ UNCHANGED <<extVars, genVars, cliVars>>
  /\ UNCHANGED <<stopVars, utilVars>>

\* convert, tail: progress 100, the result, onComplete, return.
ConvertComplete ==
  /\ \/ pc = "assemble"
     \/ pc = "awaitTranscript" /\ transcriptPromise[i].state = "resolved"
  /\ LET result == conversionResult(i,
                     IF pc = "assemble" THEN NoTranscript
                     ELSE transcriptPromise[i].value)
     IN /\ log' = IF listeners.onComplete
                  THEN invoke(emitProgress(log, "convert", i, "completed", 100),
                              "onComplete", i)
                  ELSE emitProgress(log, "convert", i, "completed", 100)
        /\ completeCalls' = IF listeners.onComplete
                            THEN [completeCalls EXCEPT ![i] = Append(@, result)]
                            ELSE completeCalls
        /\ downloads' = IF listeners.onComplete
                        THEN onComplete(downloads, result)
                        ELSE downloads
        /\ outcome' = [outcome EXCEPT ![i] = Resolve(@, result)]
  /\ pc' = "settled"
  /\ UNCHANGED <<files, config, api, listeners, mpc, i, results, batch, thrown,
                 errorCalls>>
  /\ UNCHANGED <<extVars, genVars, cliVars>>
  /\ UNCHANGED <<stopVars, utilVars>>

\* Variant of ConvertCatch: the error is rethrown without calling onError.
ConvertCatchSilent ==
  /\ pc = "catch"
  /\ outcome' = [outcome EXCEPT ![i] = Reject(@, thrown)]
  /\ thrown' = "none"
  /\ pc' = "settled"
  /\ UNCHANGED <<files, config, api, listeners, mpc, i, results, batch, log,
                 completeCalls, errorCalls>>
  /\ UNCHANGED <<extVars, genVars, cliVars>>
  /\ UNCHANGED <<dlVars, stopVars, utilVars>>

\* convert, catch block: onError, rethrow.
ConvertCatch ==
  /\ pc = "catch"
  /\ errorCalls' = IF listeners.onError
                   THEN [errorCalls EXCEPT ![i] = Append(@, thrown)]
                   ELSE errorCalls
  /\ log' = IF listeners.onError THEN invoke(log, "onError", i) ELSE log
  /\ outcome' = [outcome EXCEPT ![i] = Reject(@, thrown)]
  /\ thrown' = "none"
  /\ pc' = "settled"
  /\ UNCHANGED <<files, config, api, listeners, mpc, i, results, batch,
                 completeCalls>>
  /\ UNCHANGED <<extVars, genVars, cliVars>>
  /\ UNCHANGED <<dlVars, stopVars, utilVars>>

\* ========================================================= AudioExtractor
\* getVideoMetadata, 'loadedmetadata' listener
MetadataLoaded(k) ==
  /\ Quiescent
  /\ metaVideo[k] = "loading"
  /\ metaVideo' = [metaVideo EXCEPT ![k] = "loaded"]
  /\ urls' = revokeObjectURL(urls, k, "meta")
  /\ metaPromise' = [metaPromise EXCEPT ![k] =
       Resolve(@, [fileName |-> files[k].name, mimeType |-> files[k].type])]
  /\ UNCHANGED <<audioContext, graph, video, recorder, extractPromise>>
  /\ UNCHANGED <<orchVars, genVars, cliVars>>
  /\ UNCHANGED <<dlVars, stopVars, utilVars>>

\* getVideoMetadata, 'error' listener
MetadataError(k) ==
  /\ Quiescent
  /\ MayFault
  /\ metaVideo[k] = "loading"
  /\ metaVideo' = [metaVideo EXCEPT ![k] = "error"]
  /\ urls' = revokeObjectURL(urls, k, "meta")
  /\ metaPromise' = [metaPromise EXCEPT ![k] = Reject(@, "Failed to load video metadata")]
  /\ UNCHANGED <<audioContext, graph, video, recorder, extractPromise>>
  /\ UNCHANGED <<orchVars, genVars, disposeCount, disposedAt>>
  /\ faults' = faults + 1
  /\ UNCHANGED <<dlVars, stopVars, utilVars>>

\* What the host does while the 'loadedmetadata' listener of extractAudio
\* builds the graph: nothing throws, `new AudioContext()` throws, or a later
\* construction step (source, destination, recorder, recorder.start) throws.
BuildOutcomes == {"ok", "contextThrows", "graphThrows"}

\* Variant of ExtractLoaded: the catch block rejects without closing the graph.
ExtractLoadedNoTeardown(k, build) ==
  /\ Quiescent
  /\ build # "ok" => MayFault
  /\ video[k] = "loading"
  /\ CASE build = "ok" ->
            /\ audioContext' = k
            /\ graph' = [graph EXCEPT ![k] = "open"]
            /\ recorder' = [recorder EXCEPT ![k] = "recording"]
            /\ video' = [video EXCEPT ![k] = "playing"]
            /\ extractPromise' = extractPromise
       [] build = "contextThrows" ->
            \* the assignment to this.audioContext never happens
            /\ graph' = graph
            /\ audioContext' = audioContext
            /\ video' = [video EXCEPT ![k] = "loaded"]
            /\ extractPromise' = [extractPromise EXCEPT ![k] =
                 Reject(@, "Failed to extract audio: " \o ContextCause)]
            /\ recorder' = recorder
       [] build = "graphThrows" ->
            /\ graph' = [graph EXCEPT ![k] = "open"]
            /\ audioContext' = k
            /\ video' = [video EXCEPT ![k] = "loaded"]
            /\ extractPromise' = [extractPromise EXCEPT ![k] =
                 Reject(@, "Failed to extract audio: " \o GraphCause)]
            /\ recorder' = recorder
  /\ UNCHANGED <<metaVideo, metaPromise, urls>>
  /\ UNCHANGED <<orchVars, genVars, disposeCount, disposedAt>>
  /\ faults' = IF build # "ok" THEN faults + 1 ELSE faults
  /\ UNCHANGED <<dlVars, stopVars, utilVars>>

\* extractAudio, 'loadedmetadata' listener (try block and its catch)
ExtractLoaded(k, build) ==
  /\ Quiescent
  /\ build # "ok" => MayFault
  /\ video[k] = "loading"
  /\ CASE build = "ok" ->
            /\ audioContext' = k
            /\ graph' = [graph EXCEPT ![k] = "open"]
            /\ recorder' = [recorder EXCEPT ![k] = "recording"]
            /\ video' = [video EXCEPT ![k] = "playing"]
            /\ extractPromise' = extractPromise
       [] build = "contextThrows" ->
            \* the assignment to this.audioContext never happens
            /\ graph' = closeHeld(graph, audioContext)
            /\ audioContext' = 0
            /\ video' = [video EXCEPT ![k] = "loaded"]
            /\ extractPromise' = [extractPromise EXCEPT ![k] =
                 Reject(@, "Failed to extract audio: " \o ContextCause)]
            /\ recorder' = recorder
       [] build = "graphThrows" ->
            /\ graph' = closeHeld([graph EXCEPT ![k] = "open"], k)
            /\ audioContext' = 0
            /\ video' = [video EXCEPT ![k] = "loaded"]
            /\ extractPromise' = [extractPromise EXCEPT ![k] =
                 Reject(@, "Failed to extract audio: " \o GraphCause)]
            /\ recorder' = recorder
  /\ UNCHANGED <<metaVideo, metaPromise, urls>>
  /\ UNCHANGED <<orchVars, genVars, disposeCount, disposedAt>>
  /\ faults' = IF build # "ok" THEN faults + 1 ELSE faults
  /\ UNCHANGED <<dlVars, stopVars, utilVars>>

\* extractAudio, video.onended: mediaRecorder.stop(); source.disconnect()
ExtractEnded(k) ==
  /\ Quiescent
  /\ video[k] = "playing"
  /\ video' = [video EXCEPT ![k] = "ended"]
  /\ recorder' = [recorder EXCEPT ![k] = "stopping"]
  /\ UNCHANGED <<audioContext, graph, metaVideo, metaPromise, extractPromise, urls>>
  /\ UNCHANGED <<orchVars, genVars, cliVars>>
  /\ UNCHANGED <<dlVars, stopVars, utilVars>>

\* extractAudio, mediaRecorder.onstop
RecorderStop(k) ==
  /\ Quiescent
  /\ recorder[k] = "stopping"
  /\ recorder' = [recorder EXCEPT ![k] = "stopped"]
  /\ graph' = closeHeld(graph, audioContext)
  /\ audioContext' = 0
  /\ urls' = revokeObjectURL(urls, k, "extract")
  /\ extractPromise' = [extractPromise EXCEPT ![k] =
       Resolve(@, [audioBlob |-> [type |-> <<"a","u","d","i","o","/">> \o config.outputFormat],
                   format |-> config.outputFormat])]
  /\ UNCHANGED <<metaVideo, metaPromise, video>>
  /\ UNCHANGED <<orchVars, genVars, cliVars>>
  /\ UNCHANGED <<dlVars, stopVars, utilVars>>

\* extractAudio, 'error' listener: the element fails while loading or, after
\* the graph was built, while playing.
ExtractError(k) ==
  /\ Quiescent
  /\ MayFault
  /\ video[k] \in {"loading", "playing"}
  /\ video' = [video EXCEPT ![k] = "error"]
  /\ urls' = revokeObjectURL(urls, k, "extract")
  /\ extractPromise' = [extractPromise EXCEPT ![k] = Reject(@, "Failed to load video file")]
  /\ UNCHANGED <<audioContext, graph, metaVideo, metaPromise, recorder>>
  /\ UNCHANGED <<orchVars, genVars, disposeCount, disposedAt>>
  /\ faults' = faults + 1
  /\ UNCHANGED <<dlVars, stopVars, utilVars>>

\* Phase of the in-flight extractAudio call, if any, for the dispose history.
extractionPhase(k) ==
  IF extractPromise[k].state # "pending" THEN "none"
  ELSE IF video[k] = "loading" THEN "beforeGraph" ELSE "afterGraph"

noteDispose ==
  [k \in Calls |-> IF extractionPhase(k) # "none" THEN extractionPhase(k) ELSE disposedAt[k]]

\* Variant of AudioExtractorDispose: the graph is closed, the reference kept.
AudioExtractorDisposeKeepsRef ==
  /\ Quiescent
  /\ disposeCount < MaxDispose
  /\ disposeCount' = disposeCount + 1
  /\ disposedAt' = noteDispose
  /\ graph' = closeHeld(graph, audioContext)
  /\ audioContext' = audioContext
  /\ UNCHANGED <<metaVideo, metaPromise, video, recorder, extractPromise, urls>>
  /\ UNCHANGED <<orchVars, genVars>>
  /\ faults' = faults
  /\ UNCHANGED <<dlVars, stopVars, utilVars>>

\* AudioExtractor.dispose, called by the client
AudioExtractorDispose ==
  /\ Quiescent
  /\ disposeCount < MaxDispose
  /\ disposeCount' = disposeCount + 1
  /\ disposedAt' = noteDispose
  /\ graph' = closeHeld(graph, audioContext)
  /\ audioContext' = 0
  /\ UNCHANGED <<metaVideo, metaPromise, video, recorder, extractPromise, urls>>
  /\ UNCHANGED <<orchVars, genVars>>
  /\ faults' = faults
  /\ UNCHANGED <<dlVars, stopVars, utilVars>>

\* ==================================================== TranscriptGenerator
\* TranscriptGenerator.isSupported and VideoConverter.isTranscriptSupported
isSupported == isRecognitionAvailable
isTranscriptSupported == isSupported

\* JavaScript truthiness of a string
truthy(str) == Len(str) > 0

\* `confidenceCount > 0 ? confidenceSum / confidenceCount : 0`, as a fraction
avgConfidence(sum, count) == IF count > 0 THEN <<sum, count>> ELSE <<0, 1>>

FailedText(err) == <<"Transcription failed: " \o err \o ". Please ensure: ...">>
NoSpeechText == <<"No speech detected in the video. Possible reasons: ...">>
NoteText(err) == <<"\n", "\n", "[Note: Transcription may be incomplete due to: " \o err \o "]">>

\* The TranscriptResult built by recognition.onerror
errorResult(text, sum, count, language, err) ==
  IF truthy(text)
  THEN [text |-> text \o NoteText(err), success |-> TRUE, language |-> language,
        confidence |-> avgConfidence(sum, count), error |-> err]
  ELSE [text |-> FailedText(err), success |-> FALSE, language |-> language,
        confidence |-> "undefined", error |-> err]

\* The TranscriptResult built by recognition.onend
endResult(text, sum, count, language) ==
  IF ~truthy(text)
  THEN [text |-> NoSpeechText, success |-> FALSE, language |-> language,
        confidence |-> "undefined", error |-> "No speech detected"]
  ELSE [text |-> text, success |-> TRUE, language |-> language,
        confidence |-> avgConfidence(sum, count), error |-> "undefined"]

\* Variant of accumulate: the newline after the segment is missing.
accumulateNoNewline(text, isFinal, segment) ==
  IF isFinal THEN text \o segment ELSE text

\* recognition.onresult for one result of the event's list:
\* `transcript += results[i][0].transcript + '\n'` when the result is final
accumulate(text, isFinal, segment) ==
  IF isFinal THEN text \o segment \o <<"\n">> ELSE text

\* SpeechRecognition.stop() on session r, as the stop-call counters after it
sessionStop(sc, r) == [sc EXCEPT ![r] = @ + 1]

\* Variant of stop: the call to the host's stop is not guarded by try/catch.
stopNoCatch(hostThrows) ==
  /\ stopCalls' = IF recognition # 0 THEN sessionStop(stopCalls, recognition) ELSE stopCalls
  /\ recognition' = IF recognition # 0 /\ hostThrows THEN recognition ELSE 0
  /\ stopReturn' = [outcome |-> IF recognition # 0 /\ hostThrows THEN "threw" ELSE "returned",
                    held |-> recognition]

\* TranscriptGenerator.stop; hostThrows: the host's SpeechRecognition.stop()
\* throws (the exception is caught and logged).
stop(hostThrows) ==
  /\ stopCalls' = IF recognition # 0 THEN sessionStop(stopCalls, recognition) ELSE stopCalls
  /\ recognition' = 0
  /\ stopReturn' = [outcome |-> "returned", held |-> recognition]

\* generateTranscript, audio 'loadedmetadata' listener (try block and catch)
AudioLoaded(k, startThrows) ==
  /\ Quiescent
  /\ startThrows => MayFault
  /\ audio[k] = "loading"
  /\ IF recognition = 0
     THEN \* this.recognition was cleared by stop(): null.start() throws
          /\ transcriptPromise' = [transcriptPromise EXCEPT ![k] =
               Reject(@, "Failed to start transcription: Cannot read properties of null")]
          /\ audio' = [audio EXCEPT ![k] = "loaded"]
          /\ session' = session
     ELSE IF startThrows \/ session[recognition] # "created"
     THEN /\ transcriptPromise' = [transcriptPromise EXCEPT ![k] =
               Reject(@, "Failed to start transcription: " \o StartCause)]
          /\ audio' = [audio EXCEPT ![k] = "loaded"]
          /\ session' = session
     ELSE /\ session' = [session EXCEPT ![recognition] = "active"]
          /\ audio' = [audio EXCEPT ![k] = "playing"]
          /\ transcriptPromise' = transcriptPromise
  /\ UNCHANGED <<window, isRecognitionAvailable, recognition, stopCalls, timer,
                 transcript, confidenceSum, confidenceCount, delivered>>
  /\ UNCHANGED <<orchVars, extVars, disposeCount, disposedAt>>
  /\ faults' = IF startThrows /\ recognition # 0 THEN faults + 1 ELSE faults
  /\ UNCHANGED <<finalized, finalConfidence, settledBy>>
  /\ UNCHANGED <<dlVars, stopVars, utilVars>>

\* generateTranscript, audio 'error' listener
AudioError(k) ==
  /\ Quiescent
  /\ MayFault
  /\ audio[k] \in {"loading", "playing"}
  /\ audio' = [audio EXCEPT ![k] = "error"]
  /\ urls' = revokeObjectURL(urls, k, "transcript")
  /\ transcriptPromise' = [transcriptPromise EXCEPT ![k] =
       Reject(@, "Failed to load video for transcription")]
  /\ UNCHANGED <<window, isRecognitionAvailable, recognition, session, stopCalls,
                 timer, transcript, confidenceSum, confidenceCount, delivered>>
  /\ UNCHANGED <<audioContext, graph, metaVideo, metaPromise, video, recorder,
                 extractPromise>>
  /\ UNCHANGED <<orchVars, disposeCount, disposedAt>>
  /\ faults' = faults + 1
  /\ UNCHANGED <<finalized, finalConfidence, settledBy>>
  /\ UNCHANGED <<dlVars, stopVars, utilVars>>

\* Variant of AudioEnded: the session is stopped at once, without the timer.
AudioEndedStopsNow(k) ==
  /\ Quiescent
  /\ audio[k] = "playing"
  /\ audio' = [audio EXCEPT ![k] = "ended"]
  /\ timer' = [timer EXCEPT ![k] = "fired"]
  /\ stopCalls' = IF recognition # 0 THEN sessionStop(stopCalls, recognition) ELSE stopCalls
  /\ UNCHANGED <<window, isRecognitionAvailable, recognition, session,
                 transcript, confidenceSum, confidenceCount, delivered,
                 transcriptPromise>>
  /\ UNCHANGED <<orchVars, extVars, cliVars>>
  /\ UNCHANGED <<finalized, finalConfidence, settledBy>>
  /\ UNCHANGED <<dlVars, stopVars, utilVars>>

\* generateTranscript, audio.onended: arm the one-second grace timer
AudioEnded(k) ==
  /\ Quiescent
  /\ audio[k] = "playing"
  /\ audio' = [audio EXCEPT ![k] = "ended"]
  /\ timer' = [timer EXCEPT ![k] = "armed"]
  /\ UNCHANGED <<window, isRecognitionAvailable, recognition, session, stopCalls,
                 transcript, confidenceSum, confidenceCount, delivered,
                 transcriptPromise>>
  /\ UNCHANGED <<orchVars, extVars, cliVars>>
  /\ UNCHANGED <<finalized, finalConfidence, settledBy>>
  /\ UNCHANGED <<dlVars, stopVars, utilVars>>

\* Variant of TimerFired: a timeout path, the timer settles the call itself.
TimerFiredResolves(k) ==
  /\ Quiescent
  /\ timer[k] = "armed"
  /\ timer' = [timer EXCEPT ![k] = "fired"]
  /\ stopCalls' = IF recognition # 0 THEN sessionStop(stopCalls, recognition) ELSE stopCalls
  /\ transcriptPromise' = [transcriptPromise EXCEPT ![k] =
       Resolve(@, endResult(transcript[k], confidenceSum[k], confidenceCount[k],
                            languageOf(config)))]
  /\ UNCHANGED <<window, isRecognitionAvailable, recognition, session, audio,
                 transcript, confidenceSum, confidenceCount, delivered>>
  /\ UNCHANGED <<orchVars, extVars, cliVars>>
  /\ UNCHANGED <<finalized, finalConfidence, settledBy>>
  /\ UNCHANGED <<dlVars, stopVars, utilVars>>

\* Variant of TimerFired: the callback does not stop the session.
TimerFiredNoStop(k) ==
  /\ Quiescent
  /\ timer[k] = "armed"
  /\ timer' = [timer EXCEPT ![k] = "fired"]
  /\ UNCHANGED <<window, isRecognitionAvailable, recognition, session, stopCalls,
                 audio, transcript, confidenceSum, confidenceCount, delivered,
                 transcriptPromise>>
  /\ UNCHANGED <<orchVars, extVars, cliVars>>
  /\ UNCHANGED <<finalized, finalConfidence, settledBy>>
  /\ UNCHANGED <<dlVars, stopVars, utilVars>>

\* generateTranscript, the setTimeout callback:
\* `if (this.recognition) this.recognition.stop()`
TimerFired(k) ==
  /\ Quiescent
  /\ timer[k] = "armed"
  /\ timer' = [timer EXCEPT ![k] = "fired"]
  /\ stopCalls' = IF recognition # 0 THEN sessionStop(stopCalls, recognition) ELSE stopCalls
  /\ UNCHANGED <<window, isRecognitionAvailable, recognition, session, audio,
                 transcript, confidenceSum, confidenceCount, delivered,
                 transcriptPromise>>
  /\ UNCHANGED <<orchVars, extVars, cliVars>>
  /\ UNCHANGED <<finalized, finalConfidence, settledBy>>
  /\ UNCHANGED <<dlVars, stopVars, utilVars>>

\* Variant of RecognitionResult: the confidence of a result that is not final is
\* counted too.
RecognitionResultCountsInterim(k, isFinal, segment, confidence) ==
  /\ Quiescent
  /\ session[k] = "active"
  /\ delivered < MaxResults
  /\ delivered' = delivered + 1
  /\ transcript' = [transcript EXCEPT ![k] = accumulate(@, isFinal, segment)]
  /\ confidenceSum' = [confidenceSum EXCEPT ![k] = @ + confidence]
  /\ confidenceCount' = [confidenceCount EXCEPT ![k] = @ + 1]
  /\ UNCHANGED <<window, isRecognitionAvailable, recognition, session, stopCalls,
                 audio, timer, transcriptPromise>>
  /\ UNCHANGED <<orchVars, extVars, cliVars>>
  /\ finalized' = [finalized EXCEPT ![k] = IF isFinal THEN Append(@, segment) ELSE @]
  /\ finalConfidence' = [finalConfidence EXCEPT ![k] =
       IF isFinal THEN Append(@, confidence) ELSE @]
  /\ settledBy' = settledBy
  /\ UNCHANGED <<dlVars, stopVars, utilVars>>

\* generateTranscript, recognition.onresult (one result per event)
RecognitionResult(k, isFinal, segment, confidence) ==
  /\ Quiescent
  /\ session[k] = "active"
  /\ delivered < MaxResults
  /\ delivered' = delivered + 1
  /\ transcript' = [transcript EXCEPT ![k] = accumulate(@, isFinal, segment)]
  /\ confidenceSum' = [confidenceSum EXCEPT ![k] = IF isFinal THEN @ + confidence ELSE @]
  /\ confidenceCount' = [confidenceCount EXCEPT ![k] = IF isFinal THEN @ + 1 ELSE @]
  /\ UNCHANGED <<window, isRecognitionAvailable, recognition, session, stopCalls,
                 audio, timer, transcriptPromise>>
  /\ UNCHANGED <<orchVars, extVars, cliVars>>
  /\ finalized' = [finalized EXCEPT ![k] = IF isFinal THEN Append(@, segment) ELSE @]
  /\ finalConfidence' = [finalConfidence EXCEPT ![k] =
       IF isFinal THEN Append(@, confidence) ELSE @]
  /\ settledBy' = settledBy
  /\ UNCHANGED <<dlVars, stopVars, utilVars>>

\* generateTranscript, recognition.onerror
RecognitionError(k, err) ==
  /\ Quiescent
  /\ MayFault
  /\ session[k] = "active"
  /\ session' = [session EXCEPT ![k] = "errored"]
  /\ urls' = revokeObjectURL(urls, k, "transcript")
  /\ transcriptPromise' = [transcriptPromise EXCEPT ![k] =
       Resolve(@, errorResult(transcript[k], confidenceSum[k], confidenceCount[k],
                              languageOf(config), err))]
  /\ UNCHANGED <<window, isRecognitionAvailable, recognition, stopCalls, audio,
                 timer, transcript, confidenceSum, confidenceCount, delivered>>
  /\ UNCHANGED <<audioContext, graph, metaVideo, metaPromise, video, recorder,
                 extractPromise>>
  /\ UNCHANGED <<orchVars, disposeCount, disposedAt>>
  /\ faults' = faults + 1
  /\ settledBy' = IF transcriptPromise[k].state = "pending"
                  THEN [settledBy EXCEPT ![k] = [event |-> "error", segments |-> finalized[k],
                                                 confidences |-> finalConfidence[k], error |-> err]]
                  ELSE settledBy
  /\ UNCHANGED <<finalized, finalConfidence>>
  /\ UNCHANGED <<dlVars, stopVars, utilVars>>

\* Variant of RecognitionEnd: the end result replaces a result already delivered.
RecognitionEndOverwrites(k) ==
  /\ Quiescent
  /\ session[k] \in {"active", "errored"}
  /\ session' = [session EXCEPT ![k] = "ended"]
  /\ urls' = revokeObjectURL(urls, k, "transcript")
  /\ transcriptPromise' = [transcriptPromise EXCEPT ![k] =
       [state |-> "resolved",
        value |-> endResult(transcript[k], confidenceSum[k], confidenceCount[k],
                            languageOf(config))]]
  /\ UNCHANGED <<window, isRecognitionAvailable, recognition, stopCalls, audio,
                 timer, transcript, confidenceSum, confidenceCount, delivered>>
  /\ UNCHANGED <<audioContext, graph, metaVideo, metaPromise, video, recorder,
                 extractPromise>>
  /\ UNCHANGED <<orchVars, cliVars>>
  /\ settledBy' = IF transcriptPromise[k].state = "pending"
                  THEN [settledBy EXCEPT ![k] = [event |-> "end", segments |-> finalized[k],
                                                 confidences |-> finalConfidence[k], error |-> "none"]]
                  ELSE settledBy
  /\ UNCHANGED <<finalized, finalConfidence>>
  /\ UNCHANGED <<dlVars, stopVars, utilVars>>

\* generateTranscript, recognition.onend (the session ends by itself, after a
\* stop() or after an error)
RecognitionEnd(k) ==
  /\ Quiescent
  /\ session[k] \in {"active", "errored"}
  /\ session' = [session EXCEPT ![k] = "ended"]
  /\ urls' = revokeObjectURL(urls, k, "transcript")
  /\ transcriptPromise' = [transcriptPromise EXCEPT ![k] =
       Resolve(@, endResult(transcript[k], confidenceSum[k], confidenceCount[k],
                            languageOf(config)))]
  /\ UNCHANGED <<window, isRecognitionAvailable, recognition, stopCalls, audio,
                 timer, transcript, confidenceSum, confidenceCount, delivered>>
  /\ UNCHANGED <<audioContext, graph, metaVideo, metaPromise, video, recorder,
                 extractPromise>>
  /\ UNCHANGED <<orchVars, cliVars>>
  /\ settledBy' = IF transcriptPromise[k].state = "pending"
                  THEN [settledBy EXCEPT ![k] = [event |-> "end", segments |-> finalized[k],
                                                 confidences |-> finalConfidence[k], error |-> "none"]]
                  ELSE settledBy
  /\ UNCHANGED <<finalized, finalConfidence>>
  /\ UNCHANGED <<dlVars, stopVars, utilVars>>

\* VideoConverter.dispose, called by the client:
\* audioExtractor.dispose(); transcriptGenerator.dispose() (= stop())
VideoConverterDispose ==
  /\ Quiescent
  /\ disposeCount < MaxDispose
  /\ disposeCount' = disposeCount + 1
  /\ disposedAt' = noteDispose
  /\ graph' = closeHeld(graph, audioContext)
  /\ audioContext' = 0
  /\ \E hostThrows \in BOOLEAN : stop(hostThrows)
  /\ UNCHANGED <<metaVideo, metaPromise, video, recorder, extractPromise, urls>>
  /\ UNCHANGED <<window, isRecognitionAvailable, session, audio, timer, transcript,
                 confidenceSum, confidenceCount, delivered, transcriptPromise>>
  /\ UNCHANGED orchVars
  /\ faults' = faults
  /\ UNCHANGED <<finalized, finalConfidence, settledBy>>
  /\ UNCHANGED <<dlVars, stopCount, utilVars>>

\* ------------------------------------ TranscriptGenerator used on its own
\* The client holds a TranscriptGenerator (exported by main.ts) and calls
\* generateTranscript on files[k]: the method's synchronous part.
GenerateTranscript(k) ==
  /\ api = "generator"
  /\ Quiescent
  /\ k \in 1..N
  /\ transcriptPromise[k].state = "none"
  /\ k > 1 => transcriptPromise[k - 1].state # "none"
  /\ IF ~isRecognitionAvailable
     THEN /\ transcriptPromise' = [transcriptPromise EXCEPT ![k] =
                Resolve(Pending, unsupportedResult(languageOf(config)))]
          /\ UNCHANGED <<urls, recognition, session, audio>>
     ELSE /\ session' = [session EXCEPT ![k] = "created"]
          /\ recognition' = k
          /\ audio' = [audio EXCEPT ![k] = "loading"]
          /\ urls' = createObjectURL(urls, k, "transcript")
          /\ transcriptPromise' = [transcriptPromise EXCEPT ![k] = Pending]
  /\ UNCHANGED <<audioContext, graph, metaVideo, metaPromise, video, recorder,
                 extractPromise>>
  /\ UNCHANGED <<window, isRecognitionAvailable, stopCalls, timer, transcript,
                 confidenceSum, confidenceCount, delivered, finalized,
                 finalConfidence, settledBy>>
  /\ UNCHANGED <<orchVars, cliVars, dlVars, stopVars, utilVars>>

\* TranscriptGenerator.stop, called by the client
TranscriptGeneratorStop(hostThrows) ==
  /\ api = "generator"
  /\ Quiescent
  /\ stopCount < MaxStops
  /\ stopCount' = stopCount + 1
  /\ stop(hostThrows)
  /\ UNCHANGED <<window, isRecognitionAvailable, session, audio, timer, transcript,
                 confidenceSum, confidenceCount, delivered, transcriptPromise,
                 finalized, finalConfidence, settledBy>>
  /\ UNCHANGED <<orchVars, extVars, cliVars, dlVars, utilVars>>

\* TranscriptGenerator.dispose, called by the client: `this.stop()`
TranscriptGeneratorDispose(hostThrows) ==
  /\ api = "generator"
  /\ Quiescent
  /\ stopCount < MaxStops
  /\ stopCount' = stopCount + 1
  /\ stop(hostThrows)
  /\ UNCHANGED <<window, isRecognitionAvailable, session, audio, timer, transcript,
                 confidenceSum, confidenceCount, delivered, transcriptPromise,
                 finalized, finalConfidence, settledBy>>
  /\ UNCHANGED <<orchVars, extVars, cliVars, dlVars, utilVars>>

\* =========================================================== specification
Next ==
  \/ ClientConvert
  \/ ClientAfterConvert
  \/ ConvertMultiple
  \/ LoopHead
  \/ LoopAfterConvert
  \/ Convert
  \/ ConvertAfterMetadata
  \/ ConvertAfterAudio
  \/ ConvertAwaitRejected
  \/ ConvertComplete
  \/ ConvertCatch
  \/ \E k \in Calls : MetadataLoaded(k)
  \/ \E k \in Calls : MetadataError(k)
  \/ \E k \in Calls, build \in BuildOutcomes : ExtractLoaded(k, build)
  \/ \E k \in Calls : ExtractEnded(k)
  \/ \E k \in Calls : RecorderStop(k)
  \/ \E k \in Calls : ExtractError(k)
  \/ AudioExtractorDispose
  \/ \E k \in Calls, startThrows \in BOOLEAN : AudioLoaded(k, startThrows)
  \/ \E k \in Calls : AudioError(k)
  \/ \E k \in Calls : AudioEnded(k)
  \/ \E k \in Calls : TimerFired(k)
  \/ \E k \in Calls, isFinal \in BOOLEAN, alt \in Alternatives :
        RecognitionResult(k, isFinal, alt.transcript, alt.confidence)
  \/ \E k \in Calls, err \in RecognitionErrors : RecognitionError(k, err)
  \/ \E k \in Calls : RecognitionEnd(k)
  \/ VideoConverterDispose

Spec == Init /\ [][Next]_vars

\* A TranscriptGenerator used on its own: up to MaxFiles generateTranscript
\* calls on video files, with stop and dispose called at any moment.
GeneratorInit ==
  /\ files = [k \in 1..MaxFiles |-> [type |-> VideoMp4, name |-> FileName(k)]]
  /\ config \in [outputFormat : {Webm}, enableTranscript : {TRUE},
                 transcriptLanguage : Languages]
  /\ api = "generator"
  /\ window \in Hosts
  /\ utilCall = [fn |-> "none", arg |-> 0]
  /\ Constructed

GeneratorNext ==
  \/ \E k \in Calls : GenerateTranscript(k)
  \/ \E k \in Calls, startThrows \in BOOLEAN : AudioLoaded(k, startThrows)
  \/ \E k \in Calls : AudioError(k)
  \/ \E k \in Calls : AudioEnded(k)
  \/ \E k \in Calls : TimerFired(k)
  \/ \E k \in Calls, isFinal \in BOOLEAN, alt \in Alternatives :
        RecognitionResult(k, isFinal, alt.transcript, alt.confidence)
  \/ \E k \in Calls, err \in RecognitionErrors : RecognitionError(k, err)
  \/ \E k \in Calls : RecognitionEnd(k)
  \/ \E hostThrows \in BOOLEAN : TranscriptGeneratorStop(hostThrows)
  \/ \E hostThrows \in BOOLEAN : TranscriptGeneratorDispose(hostThrows)

GeneratorSpec == GeneratorInit /\ [][GeneratorNext]_vars

\* ------------------------------------------------- FileHandler utilities
\* File names and extensions handed to getBaseName: every character sequence
\* over NameChars of at most MaxNameLen (MaxExtLen) characters.
MaxNameLen == 3
MaxExtLen == 2
NameChars == {"a", "B", ".", "/"}
FileNames == UNION {[1..n -> NameChars] : n \in 0..MaxNameLen}
Extensions == UNION {[1..n -> NameChars] : n \in 0..MaxExtLen}

\* Byte counts handed to formatFileSize, as n * 1024^e below 2^53.
ByteCounts ==
  {[n |-> 0, e |-> 0]} \cup
  {b \in [n : (1..40) \cup {512, 1000, 1023, 1024, 1025, 1126, 1152, 1536, 2047,
                            10240, 524288, 1048575},
          e : 0..5] :
     /\ b.e = 5 => b.n < 8
     /\ b.e = 4 => b.n < 8192}

\* Durations handed to formatDuration, in whole seconds.
Durations == (0..130) \cup (3590..3700) \cup {7199, 7200, 35999, 36000, 86399, 360000}

UtilInit ==
  /\ files = [k \in 1..MaxFiles |-> [type |-> VideoMp4, name |-> FileName(k)]]
  /\ config = [outputFormat |-> Webm, enableTranscript |-> FALSE, transcriptLanguage |-> ""]
  /\ api = "util"
  /\ window = {}
  /\ utilCall \in [fn : {"getBaseName"}, arg : FileNames \X Extensions]
                \cup [fn : {"formatFileSize"}, arg : ByteCounts]
                \cup [fn : {"formatDuration"}, arg : Durations]
  /\ Constructed

\* The client calls FileHandler.getFileExtension(x), FileHandler.getBaseName(x)
\* and FileHandler.getBaseName(FileHandler.getBaseName(x) + '.' + ext).
GetBaseName ==
  /\ utilCall.fn = "getBaseName"
  /\ utilRet.state = "none"
  /\ LET x == utilCall.arg[1]
         ext == utilCall.arg[2]
     IN utilRet' = [state |-> "returned",
                    extension |-> getFileExtension(x),
                    base |-> getBaseName(x),
                    rebased |-> getBaseName(getBaseName(x) \o <<".">> \o ext)]
  /\ UNCHANGED <<orchVars, extVars, genVars, cliVars, dlVars, stopVars, utilCall>>

\* The client calls FileHandler.formatFileSize(bytes).
FormatFileSize ==
  /\ utilCall.fn = "formatFileSize"
  /\ utilRet.state = "none"
  /\ utilRet' = [state |-> "returned", value |-> formatFileSize(utilCall.arg)]
  /\ UNCHANGED <<orchVars, extVars, genVars, cliVars, dlVars, stopVars, utilCall>>

\* The client calls FileHandler.formatDuration(seconds).
FormatDuration ==
  /\ utilCall.fn = "formatDuration"
  /\ utilRet.state = "none"
  /\ utilRet' = [state |-> "returned", value |-> formatDuration(utilCall.arg)]
  /\ UNCHANGED <<orchVars, extVars, genVars, cliVars, dlVars, stopVars, utilCall>>

UtilNext ==
  \/ GetBaseName
  \/ FormatFileSize
  \/ FormatDuration

UtilSpec == UtilInit /\ [][UtilNext]_vars

\* ================================================================= claims
Settled(p) == p.state \in {"resolved", "rejected"}

\* The progress events emitted by convert call k, in order, as <<status, percentage>>.
ConvertEvents(k) ==
  LET own == SelectSeq(log, LAMBDA e : e.by = "convert" /\ e.call = k)
  IN [n \in 1..Len(own) |-> <<own[n].status, own[n].percentage>>]

\* The declared type begins with the six characters v i d e o /.
DeclaredVideo(file) ==
  /\ Len(file.type) >= 6
  /\ file.type[1] = "v" /\ file.type[2] = "i" /\ file.type[3] = "d"
  /\ file.type[4] = "e" /\ file.type[5] = "o" /\ file.type[6] = "/"

\* Call k has created no element, object URL, graph, recorder or session.
NothingTouched(k) ==
  /\ metaVideo[k] = "none" /\ metaPromise[k].state = "none"
  /\ video[k] = "none" /\ extractPromise[k].state = "none"
  /\ recorder[k] = "none" /\ graph[k] = "none"
  /\ audio[k] = "none" /\ session[k] = "none" /\ timer[k] = "none"
  /\ transcriptPromise[k].state = "none"
  /\ \A op \in {"meta", "extract", "transcript"} : urls[<<k, op>>] = "none"

\* C1: a convert call on a file whose declared type does not start with
\* 'video/' emits no progress event, starts neither metadata retrieval, audio
\* extraction nor transcript generation, never calls onComplete, and rejects
\* with 'File is not a video file' after calling onError exactly once with it.
C1_NonVideoRejected ==
  \A k \in 1..N :
    (~DeclaredVideo(files[k]) /\ outcome[k].state # "none") =>
      /\ ConvertEvents(k) = <<>>
      /\ NothingTouched(k)
      /\ completeCalls[k] = <<>>
      /\ outcome[k].state # "resolved"
      /\ outcome[k].state = "pending" => errorCalls[k] = <<>> /\ pc = "catch"
      /\ outcome[k].state = "rejected" =>
           /\ outcome[k].error = "File is not a video file"
           /\ errorCalls[k] = <<"File is not a video file">>

C1_Witness ==
  \E k \in 1..N :
    /\ files[k].type = VideoBare
    /\ outcome[k].state = "rejected"
    /\ errorCalls[k] = <<"File is not a video file">>

\* The step of call k that rejected, if metadata retrieval or extraction did.
FailedStep(k) ==
  IF metaPromise[k].state = "rejected" THEN "metadata"
  ELSE IF extractPromise[k].state = "rejected" THEN "extraction"
  ELSE "none"

\* C3: when metadata retrieval or audio extraction of a convert call rejects,
\* the call emits no progress event after that step's event, never calls
\* onComplete, never starts transcript generation, and settles only by
\* rejecting with the step's error after calling onError exactly once with it.
C3_ExtractionFailureAborts ==
  \A k \in 1..N :
    FailedStep(k) # "none" =>
      LET err == IF FailedStep(k) = "metadata" THEN metaPromise[k].error
                 ELSE extractPromise[k].error
      IN /\ ConvertEvents(k) =
              IF FailedStep(k) = "metadata"
              THEN <<<<"processing", 0>>, <<"processing", 10>>>>
              ELSE <<<<"processing", 0>>, <<"processing", 10>>, <<"extracting-audio", 30>>>>
         /\ completeCalls[k] = <<>>
         /\ audio[k] = "none" /\ session[k] = "none"
         /\ transcriptPromise[k].state = "none"
         /\ urls[<<k, "transcript">>] = "none"
         /\ outcome[k].state \in {"pending", "rejected"}
         /\ outcome[k].state = "pending" => errorCalls[k] = <<>>
         /\ outcome[k].state = "rejected" =>
              /\ outcome[k].error = err
              /\ errorCalls[k] = <<err>>

C3_Witness ==
  \E k \in 1..N :
    /\ extractPromise[k].state = "rejected"
    /\ video[k] = "error"
    /\ graph[k] = "open"
    /\ outcome[k].state = "rejected"
    /\ errorCalls[k] = <<"Failed to load video file">>

\* The progress events of a successful convert call.
SuccessEvents ==
  <<<<"processing", 0>>, <<"processing", 10>>, <<"extracting-audio", 30>>>>
  \o (IF config.enableTranscript THEN <<<<"generating-transcript", 60>>>> ELSE <<>>)
  \o <<<<"completed", 100>>>>

\* C7: a convert call that resolves has emitted exactly (processing,0),
\* (processing,10), (extracting-audio,30), (generating-transcript,60) iff
\* enableTranscript, (completed,100); percentages never decrease within a
\* call; and a step has started only if its event was already emitted.
C7_ProgressOrder ==
  \A k \in 1..N :
    LET ev == ConvertEvents(k)
    IN /\ outcome[k].state = "resolved" => ev = SuccessEvents
       /\ \A m, n \in 1..Len(ev) : m <= n => ev[m][2] <= ev[n][2]
       /\ metaPromise[k].state # "none" => Len(ev) >= 2 /\ ev[2] = <<"processing", 10>>
       /\ extractPromise[k].state # "none" => Len(ev) >= 3 /\ ev[3] = <<"extracting-audio", 30>>
       /\ transcriptPromise[k].state # "none" =>
            Len(ev) >= 4 /\ ev[4] = <<"generating-transcript", 60>>

C7_Witness ==
  \E k \in 1..N :
    /\ outcome[k].state = "resolved"
    /\ config.enableTranscript
    /\ outcome[k].value.transcript.success
    /\ Len(ConvertEvents(k)) = 5

\* The calls among 1..n whose convert resolved, in increasing order.
RECURSIVE Succeeded(_)
Succeeded(n) ==
  IF n = 0 THEN <<>>
  ELSE IF outcome[n].state = "resolved" THEN Append(Succeeded(n - 1), n)
  ELSE Succeeded(n - 1)

\* C6: convertMultiple never rejects; when it resolves every file has been
\* converted (its convert call settled) and the collection holds exactly the
\* results of the calls that resolved, in the files' order.
C6_BatchOmitsFailures ==
  /\ batch.state # "rejected"
  /\ batch.state = "resolved" =>
       /\ \A k \in 1..N : Settled(outcome[k])
       /\ batch.value = Succeeded(N)
       /\ \A n \in 1..Len(batch.value) :
            completeCalls[batch.value[n]] = <<outcome[batch.value[n]].value>>

C6_Witness ==
  /\ batch.state = "resolved"
  /\ N = 2
  /\ outcome[1].state = "rejected"
  /\ outcome[1].error = "Failed to load video file"
  /\ batch.value = <<2>>

\* C9: on a host that defines no speech-recognition constructor,
\* generateTranscript, once called, has resolved with success = false, the
\* error 'Speech recognition not available', the guidance text and the
\* requested language tag, having created no audio element, object URL,
\* session or timer; isTranscriptSupported is false on exactly those hosts.
C9_UnsupportedHost ==
  /\ isTranscriptSupported = (window # {})
  /\ window = {} =>
       \A k \in 1..N :
         /\ audio[k] = "none" /\ session[k] = "none" /\ timer[k] = "none"
         /\ urls[<<k, "transcript">>] = "none"
         /\ recognition = 0
         /\ <<"generating-transcript", 60>> \in {ConvertEvents(k)[n] : n \in 1..Len(ConvertEvents(k))}
              => transcriptPromise[k].state = "resolved"
         /\ transcriptPromise[k].state \in {"none", "resolved"}
         /\ transcriptPromise[k].state = "resolved" =>
              /\ transcriptPromise[k].value.success = FALSE
              /\ transcriptPromise[k].value.error = "Speech recognition not available"
              /\ transcriptPromise[k].value.text = UnsupportedText
              /\ transcriptPromise[k].value.language =
                   (IF config.transcriptLanguage = "" THEN "en-US"
                    ELSE config.transcriptLanguage)

C9_Witness ==
  \E k \in 1..N :
    /\ window = {}
    /\ transcriptPromise[k].state = "resolved"
    /\ transcriptPromise[k].value.language = "ar-SA"
    /\ outcome[k].state = "resolved"

\* The finalized segments, each followed by a newline, in delivery order.
RECURSIVE JoinLines(_)
JoinLines(segments) ==
  IF segments = <<>> THEN <<>>
  ELSE Head(segments) \o <<"\n">> \o JoinLines(Tail(segments))

RequestedLanguage ==
  IF config.transcriptLanguage = "" THEN "en-US" ELSE config.transcriptLanguage

\* C10: on a supporting host a resolved generateTranscript was settled by the
\* session's end or by a recognition error, and its result is: end with
\* finalized segments - success with their text; end with none - failure 'No
\* speech detected'; error with finalized segments - success with their text,
\* the '[Note: ...]' advisory and the error; error with none - failure with
\* the error.  So success holds iff a finalized segment had been accumulated.
C10_FourOutcomes ==
  \A k \in 1..N :
    (window # {} /\ transcriptPromise[k].state = "resolved") =>
      LET r == transcriptPromise[k].value
          by == settledBy[k]
      IN /\ by.event \in {"end", "error"}
         /\ r.success = (Len(by.segments) >= 1)
         /\ r.language = RequestedLanguage
         /\ (by.event = "end" /\ by.segments # <<>>) =>
              r.text = JoinLines(by.segments) /\ r.error = "undefined"
         /\ (by.event = "end" /\ by.segments = <<>>) =>
              r.error = "No speech detected"
         /\ (by.event = "error" /\ by.segments # <<>>) =>
              /\ r.text = JoinLines(by.segments) \o
                   <<"\n", "\n", "[Note: Transcription may be incomplete due to: " \o by.error \o "]">>
              /\ r.error = by.error
         /\ (by.event = "error" /\ by.segments = <<>>) =>
              r.error = by.error

C10_Witness ==
  \E k \in 1..N :
    /\ transcriptPromise[k].state = "resolved"
    /\ settledBy[k].event = "error"
    /\ settledBy[k].segments = << <<>> >>
    /\ transcriptPromise[k].value.success

\* C2 (as claimed): once transcript generation has started, the convert call
\* is never rejected and onError is never invoked.
C2_TranscriptionNeverAborts ==
  \A k \in 1..N :
    transcriptPromise[k].state # "none" =>
      /\ outcome[k].state # "rejected"
      /\ errorCalls[k] = <<>>
      /\ pc = "catch" => i # k

OpenGraphs == {k \in Calls : graph[k] = "open"}
ActiveSessions == {k \in Calls : session[k] = "active"}

\* C4 (as claimed): when an extractAudio call has settled, the graph it opened
\* is closed; and when no extraction is in flight, the held reference is null
\* and no graph is open.
C4_GraphTornDown ==
  /\ \A k \in 1..N : Settled(extractPromise[k]) => graph[k] # "open"
  /\ (\A k \in 1..N : extractPromise[k].state # "pending") =>
       audioContext = 0 /\ OpenGraphs = {}

\* C5 (as claimed): during convertMultiple the pipeline of a file begins only
\* after the convert call of the previous file has settled, at most one graph
\* is open and at most one recognition session is active.
C5_OneGraphOneSession ==
  api = "convertMultiple" =>
    /\ \A k \in 2..N : outcome[k].state # "none" => Settled(outcome[k - 1])
    /\ Cardinality(OpenGraphs) <= 1
    /\ Cardinality(ActiveSessions) <= 1

DownloadsOf(k) == SelectSeq(downloads, LAMBDA x : x.call = k)

\* The name of the k-th file without its extension.
ExpectedBase(k) == IF k % 2 = 1 THEN <<"c">> ELSE <<"m","y",".","t">>

AudioSlash == <<"a","u","d","i","o","/">>
TextPlain == <<"t","e","x","t","/","p","l","a","i","n">>

\* C11: with the documented listeners, a convert call that resolved has
\* triggered exactly one audio download, named <baseName>.<format> with MIME
\* audio/<format>, followed by a transcript download named
\* <baseName>_transcript.txt with MIME text/plain and the transcript's text iff
\* enableTranscript is true and the transcript result's success flag is true;
\* a call that has not resolved has triggered no download.
C11_Downloads ==
  \A k \in 1..N :
    LET d == DownloadsOf(k)
    IN /\ outcome[k].state # "resolved" => d = <<>>
       /\ outcome[k].state = "resolved" =>
            LET wantTranscript ==
                  config.enableTranscript /\ outcome[k].value.transcript.success
            IN /\ Len(d) = IF wantTranscript THEN 2 ELSE 1
               /\ d[1].fileName = ExpectedBase(k) \o <<".">> \o config.outputFormat
               /\ d[1].mimeType = AudioSlash \o config.outputFormat
               /\ wantTranscript =>
                    /\ d[2].fileName = ExpectedBase(k) \o
                         <<"_","t","r","a","n","s","c","r","i","p","t",".","t","x","t">>
                    /\ d[2].mimeType = TextPlain
                    /\ d[2].content = outcome[k].value.transcript.text

C11_Witness ==
  /\ N = 2
  /\ outcome[1].state = "rejected"
  /\ outcome[2].state = "resolved"
  /\ config.outputFormat = Mp3
  /\ Len(downloads) = 2
  /\ downloads[1].fileName = <<"m","y",".","t",".","m","p","3">>
  /\ downloads[2].fileName =
       <<"m","y",".","t","_","t","r","a","n","s","c","r","i","p","t",".","t","x","t">>

\* C12: a call of TranscriptGenerator.stop or dispose never throws; it leaves
\* the held reference null; when no session was held it changes nothing; when
\* one was held, that session is asked to stop exactly once and no other state
\* of the generator changes.  So a second call in a row changes nothing, and
\* dispose has the effect of stop.
C12_StopIdempotent ==
  /\ [](stopReturn.outcome # "threw")
  /\ [][stopCount' # stopCount =>
          /\ stopReturn'.outcome = "returned"
          /\ recognition' = 0
          /\ stopCalls' = IF recognition = 0 THEN stopCalls
                          ELSE [stopCalls EXCEPT ![recognition] = @ + 1]
          /\ UNCHANGED <<session, audio, timer, urls, transcript, transcriptPromise>>]_vars

C12_Witness ==
  /\ stopCount = 2
  /\ stopReturn = [outcome |-> "returned", held |-> 0]
  /\ recognition = 0
  /\ session[1] = "active"
  /\ stopCalls[1] = 1
  /\ timer[1] = "none"
  /\ transcriptPromise[2].state = "none"

\* A name has no extension: it has no dot, or nothing follows its last dot.
HasNoExtension(x) ==
  \A p \in 1..Len(x) : x[p] = "." => (p = Len(x) \/ \E q \in (p + 1)..Len(x) : x[q] = ".")

\* An extension: one or more characters, none of them a dot or a slash.
IsExtension(ext) ==
  /\ Len(ext) >= 1
  /\ \A p \in 1..Len(ext) : ext[p] \notin {".", "/"}

\* C13: getBaseName returns a name that has no extension unchanged (and
\* getFileExtension returns '' for it), and for every file name x and every
\* extension ext, getBaseName(getBaseName(x) + '.' + ext) = getBaseName(x).
C13_BaseNameIdempotent ==
  (utilCall.fn = "getBaseName" /\ utilRet.state = "returned") =>
    LET x == utilCall.arg[1]
        ext == utilCall.arg[2]
    IN /\ HasNoExtension(x) => (utilRet.base = x /\ utilRet.extension = <<>>)
       /\ IsExtension(ext) => utilRet.rebased = utilRet.base
       /\ x = <<"a", ".", "B">> => (utilRet.base = <<"a">> /\ utilRet.extension = <<"b">>)

C13_Witness ==
  /\ utilCall.fn = "getBaseName"
  /\ utilCall.arg = << <<"a", ".", "B">>, <<"a", "B">> >>
  /\ utilRet.state = "returned"
  /\ utilRet.base = <<"a">>
  /\ utilRet.rebased = <<"a">>

\* The unit scale of formatFileSize.
UnitNames == <<"Bytes", "KB", "MB", "GB", "TB">>

\* h hundredths printed with two decimals and the trailing zeros dropped.
DropZeros(h) ==
  LET w == ToString(h \div 100)
      d1 == ToString((h % 100) \div 10)
      d2 == ToString(h % 10)
  IN IF h % 100 = 0 THEN w
     ELSE IF h % 10 = 0 THEN w \o "." \o d1
     ELSE w \o "." \o d1 \o d2

\* The count n divided by 1024^q, rounded to hundredths (a tie upwards).
RoundedQuotient(n, q) ==
  {h \in {(100 * n) \div 1024^q, (100 * n) \div 1024^q + 1} :
     /\ 2 * 1024^q * h - 1024^q <= 2 * 100 * n
     /\ 2 * 100 * n < 2 * 1024^q * h + 1024^q}

\* The texts the claim describes for the count b.n * 1024^b.e > 0: 1024^(b.e + q)
\* is the largest power of 1024 not exceeding the count, and the unit is the
\* name of that power on the scale, if the scale has one.
DescribedSizes(b) ==
  UNION {{DropZeros(h) \o " " \o UnitNames[b.e + q + 1] : h \in RoundedQuotient(b.n, q)} :
           q \in {r \in 0..1 : 1024^r <= b.n /\ b.n < 1024^(r + 1) /\ b.e + r + 1 <= Len(UnitNames)}}

\* C14 (as claimed): formatFileSize returns '0 Bytes' for 0 and, for every
\* positive count, the count divided by the largest power of 1024 not
\* exceeding it, rounded to two decimals with trailing zeros dropped, a space
\* and the matching unit, always one of Bytes/KB/MB/GB/TB; 1536 gives
\* '1.5 KB' and 1048576 gives '1 MB'.
C14_FileSizeText ==
  (utilCall.fn = "formatFileSize" /\ utilRet.state = "returned") =>
    LET b == utilCall.arg
    IN /\ b.n = 0 => utilRet.value = "0 Bytes"
       /\ b.n > 0 => utilRet.value \in DescribedSizes(b)
       /\ b = [n |-> 1536, e |-> 0] => utilRet.value = "1.5 KB"
       /\ b = [n |-> 1024, e |-> 1] => utilRet.value = "1 MB"
       /\ b = [n |-> 1, e |-> 2] => utilRet.value = "1 MB"

\* The part of C14 below 1024^5 bytes.
C14_BelowPetabyte ==
  (utilCall.fn = "formatFileSize" /\ utilCall.arg.e + floorLog1024(utilCall.arg.n) < 5)
    => C14_FileSizeText

\* A field below 100 printed with two digits.
TwoDigits(n) == IF n < 10 THEN "0" \o ToString(n) ELSE ToString(n)

\* The texts 'H:MM:SS' (s >= 3600) or 'M:SS' (otherwise) whose fields are
\* below 60 in minutes and seconds and add up to s.
DescribedDurations(s) ==
  {IF s >= 3600
   THEN ToString((s - 60 * ms[1] - ms[2]) \div 3600) \o ":" \o TwoDigits(ms[1]) \o ":" \o TwoDigits(ms[2])
   ELSE ToString(ms[1]) \o ":" \o TwoDigits(ms[2]) :
     ms \in {f \in (0..59) \X (0..59) :
               /\ s - 60 * f[1] - f[2] >= 0
               /\ (s - 60 * f[1] - f[2]) % 3600 = 0
               /\ s < 3600 => s = 60 * f[1] + f[2]}}

\* C15: for every non-negative whole number of seconds s, formatDuration
\* returns 'H:MM:SS' when s >= 3600 and 'M:SS' otherwise, with minutes and
\* seconds below 60, zero-padded to two digits (minutes only in the hour
\* form), and H*3600 + M*60 + S = s; 65 gives '1:05', 3661 gives '1:01:01'.
C15_DurationText ==
  (utilCall.fn = "formatDuration" /\ utilRet.state = "returned") =>
    /\ DescribedDurations(utilCall.arg) = {utilRet.value}
    /\ utilCall.arg = 65 => utilRet.value = "1:05"
    /\ utilCall.arg = 3661 => utilRet.value = "1:01:01"
    /\ utilCall.arg = 0 => utilRet.value = "0:00"

C15_Witness ==
  /\ utilCall.fn = "formatDuration"
  /\ utilCall.arg = 3661
  /\ utilRet.state = "returned"
  /\ utilRet.value = "1:01:01"

\* C16 (as claimed): once a generateTranscript call that created a session
\* has settled, the generator's held reference is not that session.
C16_ReferenceCleared ==
  \A k \in 1..N :
    (Settled(transcriptPromise[k]) /\ session[k] # "none") => recognition # k

\* The promise of operation op of call k.
PromiseOf(k, op) ==
  CASE op = "meta" -> metaPromise[k]
    [] op = "extract" -> extractPromise[k]
    [] op = "transcript" -> transcriptPromise[k]

\* C17 (as claimed): whenever getVideoMetadata, extractAudio or
\* generateTranscript has settled, the object URL it created is revoked.
C17_UrlsRevoked ==
  \A k \in 1..N, op \in {"meta", "extract", "transcript"} :
    Settled(PromiseOf(k, op)) => urls[<<k, op>>] # "live"

LoadFailure == "Failed to load video file"

\* C18: an extractAudio call that rejected did so with 'Failed to extract
\* audio: <cause>' (a construction step threw after the metadata loaded) or
\* with 'Failed to load video file'.  In the first case the graph of the call,
\* if one was created, is closed, and the rejecting step leaves the held
\* reference null; in the second case, when the
\* element failed before a graph was built, no graph is ever created.  A
\* rejected call never resolves.
C18_BuildFailureTornDown ==
  /\ [](\A k \in 1..N :
          extractPromise[k].state = "rejected" =>
            LET e == extractPromise[k].error
            IN /\ e \in {"Failed to extract audio: AudioContext limit reached",
                         "Failed to extract audio: NotSupportedError", LoadFailure}
               /\ e # LoadFailure =>
                    /\ video[k] = "loaded"
                    /\ graph[k] \in {"none", "closed"}
                    /\ recorder[k] = "none"
               /\ (e = LoadFailure /\ recorder[k] = "none") => graph[k] = "none")
  /\ [][\A k \in 1..N :
          (/\ extractPromise[k].state = "pending"
           /\ extractPromise'[k].state = "rejected"
           /\ extractPromise'[k].error # LoadFailure) =>
             /\ audioContext' = 0
             /\ graph'[k] # "open"]_vars
  /\ [][\A k \in 1..N :
          extractPromise[k].state = "rejected" => extractPromise'[k] = extractPromise[k]]_vars

C18_Witness ==
  \E k \in 1..N :
    /\ extractPromise[k].state = "rejected"
    /\ extractPromise[k].error = "Failed to extract audio: NotSupportedError"
    /\ graph[k] = "closed"
    /\ audioContext = 0
    /\ outcome[k].state = "rejected"

\* C19: the step at which the playback of a generateTranscript call ends arms
\* the grace timer and asks no session to stop; the step at which the timer
\* fires asks the held session to stop once, or nothing when the held
\* reference is null; no other step but a client's dispose or stop asks a
\* session to stop.
C19_StopAfterGrace ==
  /\ [][\A k \in Calls :
          (audio[k] = "playing" /\ audio'[k] = "ended") =>
            /\ stopCalls' = stopCalls
            /\ timer[k] = "none" /\ timer'[k] = "armed"]_vars
  /\ [][\A k \in Calls :
          (timer[k] = "armed" /\ timer'[k] = "fired") =>
            stopCalls' = IF recognition = 0 THEN stopCalls
                         ELSE [stopCalls EXCEPT ![recognition] = @ + 1]]_vars
  /\ [][stopCalls' # stopCalls =>
          \/ \E k \in Calls : timer[k] = "armed" /\ timer'[k] = "fired"
          \/ disposeCount' # disposeCount
          \/ stopCount' # stopCount]_vars

C19_Witness ==
  /\ N = 1
  /\ timer[1] = "fired"
  /\ disposeCount = 1
  /\ stopReturn.held = 1
  /\ recognition = 0
  /\ stopCalls[1] = 1

\* C20 (as claimed): the step at which the grace timer of call k fires asks
\* no session but the one call k created to stop.
C20_TimerStopsOwnSession ==
  [][\A k \in Calls :
       (timer[k] = "armed" /\ timer'[k] = "fired") =>
         \A j \in Calls \ {k} : stopCalls'[j] = stopCalls[j]]_vars


\* ------------------------------------------------ accumulation (C22)
\* The sum of a sequence of confidences.
RECURSIVE SumSeq(_)
SumSeq(q) == IF q = <<>> THEN 0 ELSE Head(q) + SumSeq(Tail(q))

\* C22: the transcript accumulated by a call is the first alternatives of the
\* results delivered as final, in delivery order, each followed by a newline;
\* results that are not final add neither text nor confidence; the confidence
\* a successful result reports is the sum of the finalized confidences over
\* their number, which is the number of segments in its text.
C22_FinalSegmentsOnly ==
  \A k \in 1..N :
    /\ transcript[k] = JoinLines(finalized[k])
    /\ confidenceSum[k] = SumSeq(finalConfidence[k])
    /\ confidenceCount[k] = Len(finalized[k])
    /\ (window # {} /\ transcriptPromise[k].state = "resolved"
          /\ transcriptPromise[k].value.success) =>
         LET r == transcriptPromise[k].value
             by == settledBy[k]
         IN /\ SubSeq(r.text, 1, Len(JoinLines(by.segments))) = JoinLines(by.segments)
            /\ Len(by.confidences) = Len(by.segments)
            /\ r.confidence = <<SumSeq(by.confidences), Len(by.segments)>>

\* A call that was delivered one final and one non-final result and resolved
\* with the final one alone.
C22_Witness ==
  \E k \in 1..N :
    /\ \A j \in 1..N : j # k => session[j] = "none"
    /\ delivered = 2
    /\ transcriptPromise[k].state = "resolved"
    /\ settledBy[k].segments = << <<"h", "i">> >>
    /\ transcriptPromise[k].value.confidence = <<9, 1>>

\* ------------------------------------------------ one callback per call (C23)
\* C23: a convert call that has settled has invoked exactly one of onComplete
\* and onError, exactly once: onComplete with the result it resolved with,
\* onError with the error it rejected with; a call that has not settled has
\* invoked neither.
C23_OneCallback ==
  \A k \in 1..N :
    /\ outcome[k].state = "resolved" =>
         completeCalls[k] = <<outcome[k].value>> /\ errorCalls[k] = <<>>
    /\ outcome[k].state = "rejected" =>
         errorCalls[k] = <<outcome[k].error>> /\ completeCalls[k] = <<>>
    /\ ~Settled(outcome[k]) => completeCalls[k] = <<>> /\ errorCalls[k] = <<>>

\* A batch in which one call rejected and another resolved.
C23_Witness ==
  \E j, k \in 1..N :
    /\ outcome[j].state = "rejected" /\ Len(errorCalls[j]) = 1
    /\ outcome[k].state = "resolved" /\ Len(completeCalls[k]) = 1

\* ------------------------------------------------ the last event (C24)
\* The listener invocations of convert call k, in order.
Invocations(k) ==
  SelectSeq(log, LAMBDA e : e.call = k /\ e.by \in {"convert", "listener"})

\* Convert call k has emitted ('completed', 100).
EmittedCompleted(k) ==
  \E n \in 1..Len(ConvertEvents(k)) : ConvertEvents(k)[n] = <<"completed", 100>>

\* C24: ('completed', 100) is emitted only by a call whose metadata, extraction
\* and (when enabled) transcript steps have all returned, never by a call that
\* rejects; it comes right before onComplete and is the call's last progress
\* event; the result has status 'completed' and a transcript iff
\* enableTranscript.
C24_CompletedLast ==
  \A k \in 1..N :
    /\ EmittedCompleted(k) =>
         /\ metaPromise[k].state = "resolved"
         /\ extractPromise[k].state = "resolved"
         /\ config.enableTranscript => transcriptPromise[k].state = "resolved"
         /\ outcome[k].state = "resolved"
         /\ LET own == Invocations(k)
            IN /\ Len(own) >= 2
               /\ own[Len(own) - 1].status = "completed"
               /\ own[Len(own) - 1].percentage = 100
               /\ own[Len(own)].status = "onComplete"
               /\ \A n \in 1..(Len(own) - 2) : own[n].status # "completed"
    /\ outcome[k].state = "rejected" => ~EmittedCompleted(k)
    /\ outcome[k].state = "resolved" =>
         /\ EmittedCompleted(k)
         /\ outcome[k].value.status = "completed"
         /\ ("success" \in DOMAIN outcome[k].value.transcript) = config.enableTranscript

\* A batch with transcription enabled in which one call rejected at extraction
\* and another completed.
C24_Witness ==
  \E j, k \in 1..N :
    /\ outcome[j].state = "rejected" /\ extractPromise[j].state = "rejected"
    /\ outcome[k].state = "resolved" /\ config.enableTranscript
    /\ window # {}

\* ------------------------------------------------ settle once (C25)
\* C25: once the promise of generateTranscript has settled it never changes,
\* whatever is delivered later; and when a recognition error settled it, the
\* end event that follows leaves the error-path result in place.
C25_SettlesOnce ==
  [][\A k \in 1..N :
       /\ Settled(transcriptPromise[k]) => transcriptPromise'[k] = transcriptPromise[k]
       /\ (settledBy[k].event = "error" /\ session[k] = "errored"
             /\ session'[k] = "ended") =>
            /\ transcriptPromise'[k].state = "resolved"
            /\ transcriptPromise'[k].value.error = settledBy[k].error]_vars

\* A recognition error settled the call, the session's end followed, and a final
\* result had been accumulated before.
C25_Witness ==
  \E k \in 1..N :
    /\ settledBy[k].event = "error"
    /\ session[k] = "ended"
    /\ transcriptPromise[k].state = "resolved"
    /\ transcriptPromise[k].value.error = "network"
    /\ finalized[k] # <<>>


\* ------------------------------------------------ no timeout path (C21)
\* extractAudio resolves only after its video ended and its recorder stopped;
\* generateTranscript on a supporting host resolves only after a recognition
\* end or error.
ResolvedByEvents(k) ==
  /\ extractPromise[k].state = "resolved" =>
       video[k] = "ended" /\ recorder[k] = "stopped"
  /\ (window # {} /\ transcriptPromise[k].state = "resolved") =>
       session[k] \in {"errored", "ended"}

\* The enclosing convert call of a video file settles only through a step that
\* settled: it resolves after extraction (and transcription when enabled)
\* resolved, and rejects after one of its steps rejected.
ConvertFollowsSteps(k) ==
  /\ outcome[k].state = "resolved" =>
       /\ extractPromise[k].state = "resolved"
       /\ config.enableTranscript => transcriptPromise[k].state = "resolved"
  /\ (outcome[k].state = "rejected" /\ DeclaredVideo(files[k])) =>
       \/ metaPromise[k].state = "rejected"
       \/ extractPromise[k].state = "rejected"
       \/ transcriptPromise[k].state = "rejected"

\* C21 (as claimed): in addition, an operation that has settled at all has been
\* delivered one of ended, media error, recognition end or recognition error.
C21_UnsettledWithoutEvent ==
  \A k \in 1..N :
    /\ ResolvedByEvents(k)
    /\ ConvertFollowsSteps(k)
    /\ Settled(extractPromise[k]) => video[k] \in {"ended", "error"}
    /\ (window # {} /\ Settled(transcriptPromise[k])) =>
         \/ audio[k] \in {"ended", "error"}
         \/ session[k] \in {"errored", "ended"}

\* C21 (amended): there is no timeout path: extractAudio resolves only after
\* its video's ended event and the recorder's stop event, generateTranscript on
\* a supporting host only after a recognition end or error; while none of
\* ended, media error, recognition end or recognition error is delivered the
\* operation and the enclosing convert do not resolve, and they reject only
\* because the set-up in the loadedmetadata listener threw (building the audio
\* graph, starting recognition).
C21_NoTimeoutPath ==
  \A k \in 1..N :
    /\ ResolvedByEvents(k)
    /\ ConvertFollowsSteps(k)
    /\ extractPromise[k].state = "rejected" =>
         \/ video[k] = "error"
         \/ /\ video[k] = "loaded"
            /\ extractPromise[k].error \in
                 {"Failed to extract audio: " \o ContextCause,
                  "Failed to extract audio: " \o GraphCause}
    /\ (window # {} /\ transcriptPromise[k].state = "rejected") =>
         \/ audio[k] = "error"
         \/ /\ audio[k] = "loaded"
            /\ transcriptPromise[k].error \in
                 {"Failed to start transcription: " \o StartCause,
                  "Failed to start transcription: Cannot read properties of null"}

\* One call rejected because building the graph threw, with no ended or error
\* event delivered to it; another resolved after its grace timer had fired and
\* the session had ended.
C21_Witness ==
  \E j, k \in 1..N :
    /\ extractPromise[j].state = "rejected" /\ video[j] = "loaded"
    /\ outcome[j].state = "rejected"
    /\ extractPromise[k].state = "resolved"
    /\ timer[k] = "fired"
    /\ settledBy[k].event = "end"
    /\ outcome[k].state = "resolved"


\* ------------------------------------------------ termination (C26)
\* The steps the JavaScript job queue runs by itself: a continuation whose
\* awaited promise has settled, and the synchronous parts of the calls.
Continuation ==
  \/ LoopHead
  \/ LoopAfterConvert
  \/ ClientAfterConvert
  \/ Convert
  \/ ConvertAfterMetadata
  \/ ConvertAfterAudio
  \/ ConvertAwaitRejected
  \/ ConvertComplete
  \/ ConvertCatch

\* The host's answer for a media element that was created: 'loadedmetadata' or
\* 'error'.
MetadataAnswered(k) == MetadataLoaded(k) \/ MetadataError(k)

ExtractAnswered(k) ==
  /\ video[k] = "loading"
  /\ \/ \E build \in BuildOutcomes : ExtractLoaded(k, build)
     \/ ExtractError(k)

AudioAnswered(k) ==
  /\ audio[k] = "loading"
  /\ \/ \E startThrows \in BOOLEAN : AudioLoaded(k, startThrows)
     \/ AudioError(k)

\* The host's 'end' for a session that was asked to stop or has errored.
StoppedSessionEnds(k) ==
  /\ stopCalls[k] > 0 \/ session[k] = "errored"
  /\ RecognitionEnd(k)

\* What the host and the job queue guarantee: continuations run; every media
\* element created gets 'loadedmetadata' or 'error'; every playback started
\* gets 'ended'; every recorder stopped gets its stop event; every timer armed
\* fires; every session stopped or errored gets 'end'.
HostDelivers ==
  /\ WF_vars(Continuation)
  /\ \A k \in Calls : WF_vars(MetadataAnswered(k))
  /\ \A k \in Calls : WF_vars(ExtractAnswered(k))
  /\ \A k \in Calls : WF_vars(ExtractEnded(k))
  /\ \A k \in Calls : WF_vars(RecorderStop(k))
  /\ \A k \in Calls : WF_vars(AudioAnswered(k))
  /\ \A k \in Calls : WF_vars(AudioEnded(k))
  /\ \A k \in Calls : WF_vars(TimerFired(k))
  /\ \A k \in Calls : WF_vars(StoppedSessionEnds(k))

\* The converter with one output format and one requested language (neither
\* decides which step runs), the transcript on or off, on either host.
LiveInit ==
  /\ files \in UNION {{[k \in 1..n |-> [type |-> t[k], name |-> FileName(k)]] :
                          t \in [1..n -> {VideoMp4, AudioMpeg}]} : n \in 1..MaxFiles}
  /\ config \in [outputFormat : {Webm}, enableTranscript : BOOLEAN,
                 transcriptLanguage : {"ar-SA"}]
  /\ api \in {"convert", "convertMultiple"}
  /\ api = "convert" => Len(files) = 1
  /\ window \in Hosts
  /\ utilCall = [fn |-> "none", arg |-> 0]
  /\ Constructed

LiveSpec == LiveInit /\ [][Next]_vars /\ HostDelivers

====
